---- MODULE Spec2Model ----
(***************************************************************************)
(* Verification model of the PayAid AI Studio module: the chat            *)
(* orchestration pipeline (POST /api/ai/chat), the telephony webhook      *)
(* (POST /api/calls/webhook), the call listing endpoints, the Google AI   *)
(* Studio OAuth callback, the image, insights and post generators and the *)
(* authorization prologue of the module's endpoints.                      *)
(*                                                                         *)
(* JavaScript strings that the code inspects character by character       *)
(* (messages, vendor statuses, record names) are sequences of             *)
(* one-character strings; '' is << >>.  Multi-line texts (the context     *)
(* block, the answers) are sequences of line records; '' is << >>.        *)
(***************************************************************************)
EXTENDS Integers, Sequences, FiniteSets, TLC

VARIABLES env, db, semanticCache, logQueue, chat, served,
          calls, hook, mapIn, mapOut,
          tts, gateway,
          callsApi, oauth, integrations, image, insights, post

chatVars == <<env, db, semanticCache, logQueue, chat, served>>

callVars == <<calls, hook, mapIn, mapOut>>

speechVars == <<tts, gateway>>

otherVars == <<callsApi, oauth, integrations, image, insights, post>>

vars == <<chatVars, callVars, speechVars, otherVars>>

(***************************************************************************)
(* Bounds of the model.                                                    *)
(***************************************************************************)
MaxRequests == 1

(***************************************************************************)
(* String primitives.                                                      *)
(***************************************************************************)
Upper == <<"A","B","C","D","E","F","G","H","I","J","K","L","M","N","O","P","Q","R","S","T","U","V","W","X","Y","Z">>

Lower == <<"a","b","c","d","e","f","g","h","i","j","k","l","m","n","o","p","q","r","s","t","u","v","w","x","y","z">>

toLowerChar(c) ==
    IF \E k \in DOMAIN Upper : Upper[k] = c
    THEN Lower[CHOOSE k \in DOMAIN Upper : Upper[k] = c]
    ELSE c

toLowerCase(s) == [i \in 1..Len(s) |-> toLowerChar(s[i])]

includes(s, t) == \E i \in 0..(Len(s) - Len(t)) : SubSeq(s, i + 1, i + Len(t)) = t

(***************************************************************************)
(* Text lines.  A line is a record; fixed template lines carry their       *)
(* literal in s, rendered rows carry the section in s, the printed index   *)
(* in n and the row's data in d (with the tenant that owns the row).       *)
(***************************************************************************)
NoRow == [name |-> << >>, amount |-> 0, who |-> << >>, tenantId |-> "none"]

Ln(s) == [k |-> "text", s |-> s, n |-> 0, d |-> NoRow]

Header(sec, count) == [k |-> "header", s |-> sec, n |-> count, d |-> NoRow]

Item(sec, idx, row) == [k |-> "item", s |-> sec, n |-> idx, d |-> row]

(***************************************************************************)
(* POST /api/ai/chat: the personal-topic filter.                           *)
(***************************************************************************)
personalKeywords == <<
    <<"g","i","r","l","f","r","i","e","n","d">>, <<"b","o","y","f","r","i","e","n","d">>, <<"w","i","f","e">>, <<"h","u","s","b","a","n","d">>, <<"d","a","t","i","n","g">>, <<"l","o","v","e">>,
    <<"r","e","l","a","t","i","o","n","s","h","i","p">>, <<"f","a","m","i","l","y">>, <<"p","e","r","s","o","n","a","l">>, <<"l","i","f","e">>, <<"m","a","r","r","i","a","g","e">>,
    <<"d","i","v","o","r","c","e">>, <<"b","r","e","a","k","u","p">>, <<"r","o","m","a","n","c","e">>, <<"s","e","x">>, <<"i","n","t","i","m","a","t","e">>, <<"p","r","i","v","a","t","e">>,
    <<"p","e","r","s","o","n","a","l"," ","p","r","o","b","l","e","m">>, <<"p","e","r","s","o","n","a","l"," ","i","s","s","u","e">> >>

\* a filter that compares the message as typed
isPersonalQueryAsTyped(message) ==
    \E i \in DOMAIN personalKeywords : includes(message, personalKeywords[i])

isPersonalQuery(message) ==
    \E i \in DOMAIN personalKeywords :
        includes(toLowerCase(message), personalKeywords[i])

FilteredText == << Ln("I'm a business assistant and can only help with business-related questions.") >>

(***************************************************************************)
(* The persistence layer: rows of the tables getBusinessContext reads.     *)
(* Every row carries the tenant it belongs to.                             *)
(***************************************************************************)
Tenants == {"t1", "t2"}

NoContact == [id |-> "none", tenantId |-> "none", name |-> << >>, company |-> << >>]

Contact(i, t, nm, co) == [id |-> i, tenantId |-> t, name |-> nm, company |-> co]

Deal(i, t, c, nm, v, at) == [id |-> i, tenantId |-> t, contactId |-> c, name |-> nm, value |-> v, createdAt |-> at]

Interaction(i, t, c, at) == [id |-> i, tenantId |-> t, contactId |-> c, createdAt |-> at]

Invoice(i, t, st, tot, cust, num) == [id |-> i, tenantId |-> t, status |-> st, total |-> tot, customer |-> cust, invoiceNumber |-> num]

Task(i, t, st, pr, due, ttl) == [id |-> i, tenantId |-> t, status |-> st, priority |-> pr, dueDate |-> due, title |-> ttl]

Product(i, t, nm, sold) == [id |-> i, tenantId |-> t, name |-> nm, totalSold |-> sold]

Order(i, t, st, tot, recent) == [id |-> i, tenantId |-> t, status |-> st, total |-> tot, recent |-> recent]

DbEmpty ==
    [contacts |-> {}, deals |-> {}, interactions |-> {}, invoices |-> {},
     tasks |-> {}, products |-> {}, orders |-> {}]

DbAcme ==
    [contacts |-> {Contact("c1", "t1", <<"A","c","m","e">>, << >>), Contact("c2", "t2", <<"B","o","l","t">>, <<"A","c","m","e"," ","C","o","r","p">>)},
     deals |-> {Deal("d1", "t1", "c1", <<"A","c","m","e">>, 900, 1), Deal("d2", "t1", "c1", <<"B","o","l","t">>, 500, 2),
                Deal("d3", "t2", "c2", <<"B","o","l","t">>, 700, 1)},
     interactions |-> {Interaction("i1", "t1", "c1", 1), Interaction("i2", "t1", "c1", 2),
                       Interaction("i3", "t2", "c2", 1)},
     invoices |-> {Invoice("v1", "t1", "overdue", 5000, <<"A","c","m","e">>, <<"I","N","V","1">>), Invoice("v2", "t2", "sent", 300, <<"B","o","l","t">>, <<"I","N","V","2">>)},
     tasks |-> {Task("k1", "t2", "pending", 2, 1, <<"F","o","l","l","o","w"," ","u","p">>)},
     products |-> {Product("p1", "t1", <<"W","i","d","g","e","t">>, 3)},
     orders |-> {Order("o1", "t1", "confirmed", 1234, TRUE), Order("o2", "t1", "cancelled", 50, TRUE)}]

DbLone ==
    [contacts |-> {Contact("c2", "t2", <<"A","c","m","e">>, << >>)},
     deals |-> {Deal("d1", "t1", "none", <<"N","o","n","e"," ","L","t","d">>, 400, 1), Deal("d3", "t2", "c2", <<"A","c","m","e">>, 700, 1)},
     interactions |-> {Interaction("i3", "t2", "c2", 1)},
     invoices |-> {Invoice("v3", "t1", "draft", 100, <<"A","c","m","e">>, <<"I","N","V","3">>), Invoice("v4", "t2", "overdue", 80, <<"A","c","m","e">>, <<"I","N","V","4">>)},
     tasks |-> {Task("k1", "t1", "pending", 2, 1, <<"F","o","l","l","o","w"," ","u","p">>), Task("k2", "t1", "in_progress", 1, 2, <<"R","e","v","i","e","w">>),
                Task("k3", "t1", "done", 3, 1, <<"R","e","v","i","e","w">>)},
     products |-> {},
     orders |-> {}]

Datasets == {DbEmpty, DbAcme, DbLone}

\* a tenant with more rows of every kind than any query takes; tenant t2 has none
CrowdSize == 12

RowId(i) == <<"row", i>>

DbCrowded ==
    [contacts |-> {Contact("c1", "t1", <<"A","c","m","e">>, << >>)},
     deals |-> {Deal(RowId(i), "t1", "c1", <<"D","e","a","l">>, 100 + i, i) : i \in 1..CrowdSize},
     interactions |-> {Interaction(RowId(i), "t1", "c1", i) : i \in 1..CrowdSize},
     invoices |-> {Invoice(RowId(i), "t1", IF i % 2 = 0 THEN "overdue" ELSE "sent", 10 * i, <<"A","c","m","e">>, <<"I","N","V">>)
                     : i \in 1..(2 * CrowdSize)},
     tasks |-> {Task(RowId(i), "t1", "pending", 1, i, <<"T","a","s","k">>) : i \in 1..CrowdSize},
     products |-> {Product(RowId(i), "t1", <<"W","i","d","g","e","t">>, i) : i \in 1..CrowdSize},
     orders |-> {}]

(***************************************************************************)
(* getBusinessContext: extraction of client names from the message.        *)
(* The three patterns carry the i flag, so [A-Z] is any letter.            *)
(***************************************************************************)
DealTake == 3

InteractionTake == 5

ListTake == 10

ShortQueryLen == 50

isUpper(c) == \E k \in DOMAIN Upper : Upper[k] = c

isLetter(c) == \E k \in DOMAIN Upper : Upper[k] = c \/ Lower[k] = c

isSpace(c) == c = " "

isNameChar(c) == isLetter(c) \/ isSpace(c) \/ c = "&"

Min(S) == CHOOSE x \in S : \A y \in S : x <= y

\* the literal t (lower case) stands at position p of low
startsAt(low, p, t) ==
    /\ p >= 1
    /\ p + Len(t) - 1 <= Len(low)
    /\ SubSeq(low, p, p + Len(t) - 1) = t

skipSpaces(s, q) ==
    Min({r \in q..(Len(s) + 1) : r = Len(s) + 1 \/ ~isSpace(s[r])})

trim(s) ==
    IF \A i \in DOMAIN s : isSpace(s[i]) THEN << >>
    ELSE LET a == Min({i \in DOMAIN s : ~isSpace(s[i])})
             b == CHOOSE i \in DOMAIN s : ~isSpace(s[i]) /\ \A j \in DOMAIN s : j > i => isSpace(s[j])
         IN SubSeq(s, a, b)

\* the capture [A-Z][a-zA-Z\s&]{least,}? starting at r and ending at e
nameRun(s, r, e, least) ==
    /\ r >= 1 /\ r <= Len(s) /\ isLetter(s[r])
    /\ e >= r + least /\ e <= Len(s)
    /\ \A j \in (r + 1)..e : isNameChar(s[j])

\* the positions p where one of the words kws stands, followed by white space
wordStarts(s, kws) ==
    LET low == toLowerCase(s) IN
    {x \in (1..Len(s)) \X kws :
        /\ startsAt(low, x[1], x[2])
        /\ x[1] + Len(x[2]) <= Len(s)
        /\ isSpace(s[x[1] + Len(x[2])])}

\* <<p, r, e>>: the pattern matches from p and captures s[r..e]
pattern1Matches(s) ==
    LET low == toLowerCase(s) IN
    UNION {LET r == skipSpaces(s, x[1] + Len(x[2])) IN
           {<<x[1], r, e>> : e \in {e \in (r + 1)..Len(s) :
                /\ nameRun(s, r, e, 1)
                /\ \/ e = Len(s)
                   \/ isSpace(s[e + 1])
                   \/ \E w \in {<<"p","r","o","p","o","s","a","l">>, <<"q","u","o","t","e">>, <<"d","e","a","l">>, <<"c","o","n","t","r","a","c","t">>} : startsAt(low, e + 1, w)}}
           : x \in wordStarts(s, {<<"f","o","r">>, <<"w","i","t","h">>, <<"t","o">>, <<"a","b","o","u","t">>})}

pattern2Matches(s) ==
    LET low == toLowerCase(s) IN
    UNION {LET q == skipSpaces(s, x[1] + Len(x[2])) IN
           UNION {LET r == skipSpaces(s, q + Len(pre)) IN
                  {<<x[1], r, e>> : e \in {e \in (r + 1)..Len(s) :
                       /\ nameRun(s, r, e, 1)
                       /\ (e = Len(s) \/ isSpace(s[e + 1]))}}
                  : pre \in {w \in {<<"f","o","r">>, <<"w","i","t","h">>, <<"t","o">>} :
                       /\ startsAt(low, q, w)
                       /\ q + Len(w) <= Len(s)
                       /\ isSpace(s[q + Len(w)])}}
           : x \in wordStarts(s, {<<"p","r","o","p","o","s","a","l">>, <<"q","u","o","t","e">>, <<"d","e","a","l">>, <<"c","o","n","t","r","a","c","t">>})}

pattern3Matches(s) ==
    LET low == toLowerCase(s) IN
    UNION {{<<p, p, e>> : e \in {e \in (p + 2)..(Len(s) - 1) :
                /\ nameRun(s, p, e, 2)
                /\ isSpace(s[e + 1])
                /\ \E w \in {<<"p","r","o","p","o","s","a","l">>, <<"q","u","o","t","e">>, <<"d","e","a","l">>} : startsAt(low, skipSpaces(s, e + 1), w)}}
           : p \in 1..Len(s)}

\* leftmost match, lazy capture
firstCapture(s, M) ==
    LET p == Min({m[1] : m \in M})
        e == Min({m[3] : m \in {x \in M : x[1] = p}})
        m == CHOOSE x \in M : x[1] = p /\ x[3] = e
    IN trim(SubSeq(s, m[2], m[3]))

firstToken(s) ==
    LET t == trim(s) IN
    IF \E i \in DOMAIN t : isSpace(t[i])
    THEN SubSeq(t, 1, Min({i \in DOMAIN t : isSpace(t[i])}) - 1)
    ELSE t

extractedNames(userMessage) ==
    LET m1 == pattern1Matches(userMessage)
        m2 == pattern2Matches(userMessage)
        m3 == pattern3Matches(userMessage)
    IN  (IF m1 # {} THEN <<firstCapture(userMessage, m1)>> ELSE << >>)
        \o (IF m2 # {} THEN <<firstCapture(userMessage, m2)>> ELSE << >>)
        \o (IF m3 # {} THEN <<firstCapture(userMessage, m3)>> ELSE << >>)
        \o (IF Len(userMessage) < ShortQueryLen /\ trim(userMessage) # << >> /\ isUpper(trim(userMessage)[1])
            THEN <<firstToken(userMessage)>> ELSE << >>)

searchTerms(userMessage) ==
    LET names == extractedNames(userMessage) IN
    IF Len(names) > 0 THEN names ELSE <<userMessage>>

\* { contains: term, mode: 'insensitive' }
containsInsensitive(field, term) == includes(toLowerCase(field), toLowerCase(term))

(***************************************************************************)
(* getBusinessContext: the queries.  Each query is logged with the model   *)
(* it reads and the tenant identifier its where-clause carries ("none"     *)
(* when the where-clause has no tenantId).                                 *)
(***************************************************************************)
Query(model, tenantFilter) == [model |-> model, tenantFilter |-> tenantFilter]

RECURSIVE SortByKey(_, _)
SortByKey(S, key) ==
    IF S = {} THEN << >>
    ELSE LET x == CHOOSE x \in S : \A y \in S : key[x] <= key[y]
         IN <<x>> \o SortByKey(S \ {x}, key)

RECURSIVE SumTotal(_)
SumTotal(S) ==
    IF S = {} THEN 0
    ELSE LET x == CHOOSE x \in S : TRUE IN x.total + SumTotal(S \ {x})

\* a query without its take
takeAll(q, n) == q

take(q, n) == SubSeq(q, 1, IF Len(q) < n THEN Len(q) ELSE n)

\* prisma.contact.findMany({ where: { tenantId, OR: [...] }, take: 1 })
contactMatches(d, tenantId, userMessage) ==
    LET terms == searchTerms(userMessage) IN
    {c \in d.contacts :
        /\ c.tenantId = tenantId
        /\ \E i \in DOMAIN terms :
              \/ containsInsensitive(c.name, terms[i])
              \/ containsInsensitive(c.company, terms[i])}

\* prisma.deal.findMany({ where: { tenantId, contactId }, orderBy: createdAt desc, take: 3 })
contactDeals(d, tenantId, contact) ==
    take(SortByKey({x \in d.deals : x.tenantId = tenantId /\ x.contactId = contact.id},
                   [x \in d.deals |-> 0 - x.createdAt]), DealTake)

\* prisma.interaction.findMany({ where: { contactId }, orderBy: createdAt desc, take: 5 })
contactInteractions(d, tenantId, contact) ==
    take(SortByKey({x \in d.interactions : x.contactId = contact.id},
                   [x \in d.interactions |-> 0 - x.createdAt]), InteractionTake)

topProducts(d, tenantId) ==
    take(SortByKey({x \in d.products : x.tenantId = tenantId},
                   [x \in d.products |-> 0 - x.totalSold]), ListTake)

overdueInvoices(d, tenantId) ==
    take(SortByKey({x \in d.invoices : x.tenantId = tenantId /\ x.status = "overdue"},
                   [x \in d.invoices |-> 0]), ListTake)

pendingTasks(d, tenantId) ==
    take(SortByKey({x \in d.tasks : x.tenantId = tenantId /\ x.status \in {"pending", "in_progress"}},
                   [x \in d.tasks |-> (0 - x.priority) * 1000 + x.dueDate]), ListTake)

recentDeals(d, tenantId) ==
    take(SortByKey({x \in d.deals : x.tenantId = tenantId},
                   [x \in d.deals |-> (0 - x.value) * 1000 - x.createdAt]), ListTake)

pendingInvoices(d, tenantId) ==
    take(SortByKey({x \in d.invoices : x.tenantId = tenantId /\ x.status \in {"sent", "draft"}},
                   [x \in d.invoices |-> 0]), ListTake)

totalRevenue(d, tenantId) ==
    SumTotal({x \in d.orders : x.tenantId = tenantId /\ x.recent
                               /\ x.status \in {"confirmed", "shipped", "delivered"}})

contactName(d, id) ==
    IF \E c \in d.contacts : c.id = id THEN (CHOOSE c \in d.contacts : c.id = id).name ELSE <<"N","/","A">>

\* the queries in the order the function issues them, given the matched contact
contextQueries(tenantId, contact) ==
    <<Query("tenant", tenantId), Query("contact", tenantId)>>
    \o (IF contact # NoContact THEN <<Query("deal", tenantId), Query("interaction", "none")>> ELSE << >>)
    \o <<Query("product", tenantId),
         Query("contact.count", tenantId), Query("deal.count", tenantId), Query("order.count", tenantId),
         Query("invoice.count", tenantId), Query("task.count", tenantId),
         Query("invoice", tenantId), Query("task", tenantId), Query("deal", tenantId),
         Query("order", tenantId), Query("invoice", tenantId)>>

(***************************************************************************)
(* getBusinessContext: the rendered context block.                         *)
(***************************************************************************)
Row(name, amount, who, owner) == [name |-> name, amount |-> amount, who |-> who, tenantId |-> owner]

renderRows(sec, rows) == [i \in 1..Len(rows) |-> Item(sec, i, rows[i])]

\* a list rendering that prints nothing under the header of an empty list
renderListWithoutSentinel(sec, rows, noneText) ==
    <<Header(sec, Len(rows))>> \o renderRows(sec, rows) \o <<Ln("")>>

\* header with the count, then the numbered rows or the 'None - ...' text
renderList(sec, rows, noneText) ==
    <<Header(sec, Len(rows))>>
    \o (IF Len(rows) > 0 THEN renderRows(sec, rows) ELSE <<Ln(noneText)>>)
    \o <<Ln("")>>

renderContext(d, tenantId, contact) ==
    LET deals == contactDeals(d, tenantId, contact)
        ints == contactInteractions(d, tenantId, contact)
        prods == topProducts(d, tenantId)
        invRow(x) == Row(x.invoiceNumber, x.total, x.customer, x.tenantId)
        taskRow(x) == Row(x.title, x.priority, << >>, x.tenantId)
        dealRow(x) == Row(x.name, x.value, contactName(d, x.contactId), x.tenantId)
        intRow(x) == Row(<< >>, x.createdAt, << >>, x.tenantId)
        prodRow(x) == Row(x.name, x.totalSold, << >>, x.tenantId)
        invRows(q) == [i \in 1..Len(q) |-> invRow(q[i])]
        taskRows(q) == [i \in 1..Len(q) |-> taskRow(q[i])]
        dealRows(q) == [i \in 1..Len(q) |-> dealRow(q[i])]
        intRows(q) == [i \in 1..Len(q) |-> intRow(q[i])]
        prodRows(q) == [i \in 1..Len(q) |-> prodRow(q[i])]
    IN  <<Ln("=== BUSINESS DATA ==="),
          Ln("IMPORTANT: Use ONLY this data to answer questions. Do NOT give generic responses."),
          Ln(""),
          Ln("YOUR BUSINESS"),
          Ln("SUMMARY:"),
          Header("- Total Contacts:", Cardinality({x \in d.contacts : x.tenantId = tenantId})),
          Header("- Total Deals:", Cardinality({x \in d.deals : x.tenantId = tenantId})),
          Header("- Total Orders:", Cardinality({x \in d.orders : x.tenantId = tenantId})),
          Header("- Total Invoices:", Cardinality({x \in d.invoices : x.tenantId = tenantId})),
          Header("- Total Tasks:", Cardinality({x \in d.tasks : x.tenantId = tenantId})),
          Header("- Revenue (Last 30 Days):", totalRevenue(d, tenantId))>>
        \o (IF contact # NoContact
            THEN <<Ln("=== RELEVANT CLIENT/COMPANY INFORMATION ==="), Item("CLIENT:", 0, Row(contact.name, 0, contact.company, contact.tenantId))>>
                 \o (IF Len(deals) > 0
                     THEN <<Ln("RELATED DEAL:"), Item("- Deal Name:", 0, Row(deals[1].name, deals[1].value, << >>, deals[1].tenantId))>>
                     ELSE << >>)
                 \o (IF Len(ints) > 0
                     THEN <<Header("PAST INTERACTIONS", Len(ints))>> \o renderRows("PAST INTERACTIONS", intRows(ints))
                     ELSE << >>)
            ELSE << >>)
        \o (IF Len(prods) > 0 THEN <<Ln("=== AVAILABLE PRODUCTS/SERVICES ===")>> \o renderRows("=== AVAILABLE PRODUCTS/SERVICES ===", prodRows(prods)) ELSE << >>)
        \o <<Ln("")>>
        \o renderList("OVERDUE INVOICES", invRows(overdueInvoices(d, tenantId)), "None - You have no overdue invoices.")
        \o renderList("PENDING TASKS", taskRows(pendingTasks(d, tenantId)), "None - You have no pending tasks.")
        \o renderList("ACTIVE DEALS", dealRows(recentDeals(d, tenantId)), "None - You have no active deals.")
        \o renderList("PENDING INVOICES", invRows(pendingInvoices(d, tenantId)), "None - You have no pending invoices.")
        \o <<Ln("=== END OF BUSINESS DATA ===")>>

(***************************************************************************)
(* getHelpfulResponse: the rule-based responder.                           *)
(***************************************************************************)
RuleTake == 5

isHeaderOf(line, secs) == line.k = "header" /\ line.s \in secs

isStop(line, secs) == isHeaderOf(line, secs) \/ (line.k = "text" /\ line.s = "=== END OF BUSINESS DATA ===")

\* businessContext.match(/SEC \(([^)]+)\):([\s\S]*?)(?=STOP1|STOP2|=== END)/)[2]
sectionText(ctx, sec, stops) ==
    IF \E i \in DOMAIN ctx : isHeaderOf(ctx[i], {sec}) /\ \E j \in (i + 1)..Len(ctx) : isStop(ctx[j], stops)
    THEN LET i == Min({x \in DOMAIN ctx : isHeaderOf(ctx[x], {sec})})
             j == Min({x \in (i + 1)..Len(ctx) : isStop(ctx[x], stops)})
         IN SubSeq(ctx, i + 1, j - 1)
    ELSE << >>

lineIsBlank(line) == line.k = "text" /\ line.s = ""

lineIncludesNone(line) ==
    \/ line.k = "text" /\ line.s \in {"None - You have no overdue invoices.", "None - You have no pending tasks.",
                                      "None - You have no active deals.", "None - You have no pending invoices."}
    \/ line.k = "item" /\ (includes(line.d.name, <<"N","o","n","e">>) \/ includes(line.d.who, <<"N","o","n","e">>))

\* text && text.trim() && !text.includes('None')
sectionUsable(text) ==
    /\ \E i \in DOMAIN text : ~lineIsBlank(text[i])
    /\ ~\E i \in DOMAIN text : lineIncludesNone(text[i])

RECURSIVE numberedLines(_)
numberedLines(text) ==
    IF text = << >> THEN << >>
    ELSE (IF Head(text).k = "item" THEN <<Head(text)>> ELSE << >>) \o numberedLines(Tail(text))

\* an answer that lists every numbered line of the section
listAnswerUncapped(text, intro, outro, noItems) ==
    IF sectionUsable(text) /\ Len(numberedLines(text)) > 0
    THEN <<Ln(intro), Ln("")>> \o numberedLines(text) \o <<Ln(""), Ln(outro)>>
    ELSE <<Ln(noItems)>>

listAnswer(text, intro, outro, noItems) ==
    IF sectionUsable(text) /\ Len(numberedLines(text)) > 0
    THEN <<Ln(intro), Ln("")>> \o take(numberedLines(text), RuleTake) \o <<Ln(""), Ln(outro)>>
    ELSE <<Ln(noItems)>>

\* a responder that returns the deals section and nothing else
getHelpfulResponseSectionOnly(query, businessContext) ==
    take(numberedLines(sectionText(businessContext, "ACTIVE DEALS", {"PENDING INVOICES"})), RuleTake)

getHelpfulResponse(query, businessContext) ==
    LET lowerQuery == toLowerCase(query)
        dealsText == sectionText(businessContext, "ACTIVE DEALS", {"PENDING INVOICES"})
        tasksText == sectionText(businessContext, "PENDING TASKS", {"ACTIVE DEALS", "PENDING INVOICES"})
        invoicesText == sectionText(businessContext, "OVERDUE INVOICES", {"PENDING TASKS", "ACTIVE DEALS"})
        hasRevenue == \E i \in DOMAIN businessContext : isHeaderOf(businessContext[i], {"- Revenue (Last 30 Days):"})
        revenue == businessContext[Min({i \in DOMAIN businessContext : isHeaderOf(businessContext[i], {"- Revenue (Last 30 Days):"})})].n
    IN  IF includes(lowerQuery, <<"d","e","a","l">>)
        THEN listAnswer(dealsText, "Here are your top deals:",
                        "These are the highest value deals in your pipeline.",
                        "I couldn't find active deals in your data. You can view all deals on the Deals page.")
        ELSE IF includes(lowerQuery, <<"t","a","s","k">>) \/ includes(lowerQuery, <<"t","o","d","o">>) \/ includes(lowerQuery, <<"a","t","t","e","n","t","i","o","n">>)
        THEN listAnswer(tasksText, "Here are the tasks that need your attention:",
                        "These are prioritized by importance and due date.",
                        "You currently have no pending tasks. Great job staying on top of things!")
        ELSE IF includes(lowerQuery, <<"i","n","v","o","i","c","e">>) \/ includes(lowerQuery, <<"o","v","e","r","d","u","e">>)
        THEN listAnswer(invoicesText, "Here are your overdue invoices:",
                        "Please follow up with these customers to ensure timely payment.",
                        "You have no overdue invoices. Excellent!")
        ELSE IF includes(lowerQuery, <<"r","e","v","e","n","u","e">>) \/ includes(lowerQuery, <<"i","n","c","o","m","e">>) \/ includes(lowerQuery, <<"s","a","l","e","s">>)
        THEN (IF hasRevenue
              THEN <<Header("Your revenue for the last 30 days is", revenue)>>
              ELSE <<Ln("Revenue data is not available at the moment. Check the Dashboard or Accounting > Reports for financial information.")>>)
        ELSE <<Ln("I'm having trouble connecting to the AI service right now."), Ln(""),
               Ln("To enable full AI capabilities, please ensure your API keys are configured in the .env file:")>>

(***************************************************************************)
(* POST /api/ai/chat: requests, collaborators and the handler's steps.     *)
(***************************************************************************)
mEmpty == << >>

mWife == <<"m","y"," ","W","i","f","e">>

mDeals == <<"t","o","p"," ","d","e","a","l","s">>

mDealsSpace == <<"t","o","p"," ","d","e","a","l","s"," ">>

mQuote == <<"q","u","o","t","e"," ","f","o","r"," ","A","c","m","e">>

mTasks == <<"T","a","s","k","s"," ","t","o","d","a","y">>

mInvoice == <<"o","v","e","r","d","u","e"," ","i","n","v","o","i","c","e","s">>

mRevenue == <<"s","a","l","e","s"," ","i","n","c","o","m","e">>

mDealTask == <<"D","e","a","l"," ","o","r"," ","t","a","s","k">>

mTodoInvoice == <<"t","o","d","o",":"," ","i","n","v","o","i","c","e">>

mOverdueSales == <<"o","v","e","r","d","u","e"," ","s","a","l","e","s">>

ChatMessages == {mEmpty, mWife, mDeals, mQuote, mTasks, mInvoice, mRevenue}

RepeatMessages == {mDeals, mDealsSpace}

\* the messages of the model that contain a personal-topic keyword in any letter case
KeywordMessages ==
    {m \in ChatMessages \cup RepeatMessages :
        \E i \in DOMAIN personalKeywords : includes(toLowerCase(m), personalKeywords[i])}

(***************************************************************************)
(* The authentication collaborator (@/lib/middleware/auth).  A request     *)
(* carries a resolved and licensed identity, no identity, or an identity   *)
(* without the module license.  requireModuleAccess returns for the first  *)
(* and throws a license error for the others; handleLicenseError turns     *)
(* the license error into a 401 or 403 response.                           *)
(***************************************************************************)
Credentials == {"ok", "anonymous", "unlicensed"}

requireModuleAccess(credential) == credential = "ok"

handleLicenseError(credential) == IF credential = "anonymous" THEN 401 ELSE 403

UserOf(tenantId) == IF tenantId = "t1" THEN "u1" ELSE "u2"

AiText == <<Ln("AI answer")>>

\* a provider client's chat(): a message (possibly '') or an exception
ProviderOutcomes ==
    {[ok |-> TRUE, message |-> AiText], [ok |-> TRUE, message |-> << >>], [ok |-> FALSE, message |-> << >>]}

\* analyzePromptContext(): { hasEnoughContext, confidence }
AnalysisResults == [hasEnoughContext : BOOLEAN, confidence : {"low", "medium", "high"}]

NoAnalysis == [hasEnoughContext |-> FALSE, confidence |-> "none"]

ClarifyText == <<Ln("clarifying questions")>>

NoRes == [status |-> 0, service |-> "none", cached |-> FALSE, message |-> << >>, needsClarification |-> FALSE]

Res(status, service, message, clar) ==
    [status |-> status, service |-> service, cached |-> FALSE, message |-> message, needsClarification |-> clar]

IdleChat ==
    [pc |-> "idle", auth |-> "ok", jsonOk |-> TRUE, message |-> << >>, moduleHint |-> "none", tenantId |-> "t1",
     businessContext |-> << >>, contact |-> NoContact, queries |-> << >>, analysis |-> NoAnalysis,
     attempts |-> << >>, hasResponse |-> FALSE, response |-> << >>, usedService |-> "rule-based",
     cacheSets |-> 0, logAdds |-> 0, keyCachedAtStart |-> FALSE, contextFailed |-> FALSE, inFlight |-> {}, res |-> NoRes]

Attempt(stage, result, message) == [stage |-> stage, result |-> result, message |-> message]

\* a chain whose first catch block falls to Hugging Face, leaving Ollama out
nextStageWithoutOllama(stage) ==
    CASE stage = "groq" -> "huggingface"
      [] stage = "ollama" -> "huggingface"
      [] stage = "huggingface" -> "openai"
      [] stage = "openai" -> "rule-based"

\* the nesting of the try/catch blocks: the stage a failed stage falls to
nextStage(stage) ==
    CASE stage = "groq" -> "ollama"
      [] stage = "ollama" -> "huggingface"
      [] stage = "huggingface" -> "openai"
      [] stage = "openai" -> "rule-based"

stageSkipped(c, stage) ==
    [c EXCEPT !.attempts = Append(@, Attempt(stage, "skipped", << >>)), !.pc = nextStage(stage)]

\* a chain that starts a provider call and moves on without awaiting it
stageStartedUnawaited(c, stage) == [c EXCEPT !.inFlight = @ \cup {stage}, !.pc = nextStage(stage)]

\* response = await client.chat(...): the call is in flight until it resolves or rejects
stageStarted(c, stage) == [c EXCEPT !.inFlight = @ \cup {stage}]

\* a provider call that forgets to record the provider in usedService
stageCalledUnnamed(c, stage, outcome) ==
    IF outcome.ok
    THEN [c EXCEPT !.attempts = Append(@, Attempt(stage, "ok", outcome.message)), !.hasResponse = TRUE,
                   !.response = outcome.message, !.pc = "cache", !.inFlight = @ \ {stage}]
    ELSE [c EXCEPT !.attempts = Append(@, Attempt(stage, "raised", << >>)), !.pc = nextStage(stage),
                   !.inFlight = @ \ {stage}]

stageCalled(c, stage, outcome) ==
    IF outcome.ok
    THEN [c EXCEPT !.attempts = Append(@, Attempt(stage, "ok", outcome.message)), !.hasResponse = TRUE,
                   !.response = outcome.message, !.usedService = stage, !.pc = "cache",
                   !.inFlight = @ \ {stage}]
    ELSE [c EXCEPT !.attempts = Append(@, Attempt(stage, "raised", << >>)), !.pc = nextStage(stage),
                   !.inFlight = @ \ {stage}]

\* semanticCache.set(key, value)
cacheSet(cache, key, value) == {e \in cache : e.key # key} \cup {[key |-> key, value |-> value]}

cacheHas(cache, key) == \E e \in cache : e.key = key

\* a cache guard that looks at the text only
shouldCacheAnyText(usedService, message) == message # << >>

\* usedService !== 'rule-based' && response.message
shouldCache(usedService, message) == usedService # "rule-based" /\ message # << >>

\* a log job that drops the module hint of the request
LogJobGeneral(c) ==
    [userId |-> UserOf(c.tenantId), tenantId |-> c.tenantId, query |-> c.message,
     response |-> c.response, module |-> "general"]

\* the job of mediumPriorityQueue.add: module: validated.context?.module || 'general'
LogJob(c) ==
    [userId |-> UserOf(c.tenantId), tenantId |-> c.tenantId, query |-> c.message,
     response |-> c.response, module |-> IF c.moduleHint = "none" THEN "general" ELSE c.moduleHint]

\* context.module of the body: absent ("none"), a member of the enum, or another string
ModuleHints == {"none", "crm", "general", "payroll"}

moduleEnum == {"crm", "accounting", "inventory", "marketing", "hr", "general"}

\* a schema without the min(1) on message
chatSchemaAcceptsAnyMessage(message, module) ==
    module = "none" \/ module \in moduleEnum

\* chatSchema.parse: message is z.string().min(1), context.module an optional enum
chatSchemaAccepts(message, module) ==
    /\ Len(message) >= 1
    /\ module = "none" \/ module \in moduleEnum

ChatArrives(limit, messages, credentials, modules) ==
    /\ chat.pc \in {"idle", "done"}
    /\ served < limit
    /\ \E a \in credentials, j \in BOOLEAN, m \in messages, t \in Tenants, h \in modules :
          chat' = [IdleChat EXCEPT !.pc = "auth", !.auth = a, !.jsonOk = j, !.message = m, !.tenantId = t,
                                   !.moduleHint = h, !.keyCachedAtStart = cacheHas(semanticCache, m)]
    /\ served' = served + 1
    /\ UNCHANGED <<env, db, semanticCache, logQueue, callVars, speechVars, otherVars>>

ChatRequest == ChatArrives(MaxRequests, ChatMessages, Credentials, {"none"})

\* requireModuleAccess(request, 'ai-studio'); a license error is answered by handleLicenseError
ChatAuth ==
    /\ chat.pc = "auth"
    /\ chat' = IF requireModuleAccess(chat.auth)
               THEN [chat EXCEPT !.pc = "parse"]
               ELSE [chat EXCEPT !.pc = "done", !.res = Res(handleLicenseError(chat.auth), "none", << >>, FALSE)]
    /\ UNCHANGED <<env, db, semanticCache, logQueue, served, callVars, speechVars, otherVars>>

\* request.json(), chatSchema.parse(body) and the personal-topic filter
ChatParse ==
    /\ chat.pc = "parse"
    /\ chat' = IF ~chat.jsonOk
               THEN [chat EXCEPT !.pc = "done", !.res = Res(500, "none", << >>, FALSE)]
               ELSE IF ~chatSchemaAccepts(chat.message, chat.moduleHint)
               THEN [chat EXCEPT !.pc = "done", !.res = Res(400, "none", << >>, FALSE)]
               ELSE IF isPersonalQuery(chat.message)
               THEN [chat EXCEPT !.pc = "done", !.res = Res(200, "filtered", FilteredText, FALSE)]
               ELSE [chat EXCEPT !.pc = "context"]
    /\ UNCHANGED <<env, db, semanticCache, logQueue, served, callVars, speechVars, otherVars>>

\* take: 1 without an orderBy: any one of the matching contacts
contactChoices(d, tenantId, userMessage) ==
    LET found == contactMatches(d, tenantId, userMessage) IN
    IF found = {} THEN {NoContact} ELSE found

\* the context POST's own catch block would substitute
ContextUnavailable == <<Ln("Business context unavailable. Please try again.")>>

\* getBusinessContext(tenantId, message): its whole body is inside try, and its catch
\* returns ''; failAt is the query that rejected (0: none), and it never throws
getBusinessContext(d, tenantId, contact, failAt) ==
    [threw |-> FALSE,
     context |-> IF failAt = 0 THEN renderContext(d, tenantId, contact) ELSE << >>]

\* try { businessContext = await getBusinessContext(...) } catch { placeholder }
ChatContext ==
    /\ chat.pc = "context"
    /\ \E c \in contactChoices(db, chat.tenantId, chat.message) :
       \E failAt \in 0..Len(contextQueries(chat.tenantId, c)) :
          LET r == getBusinessContext(db, chat.tenantId, c, failAt) IN
          chat' = [chat EXCEPT !.pc = "analyze",
                               !.contact = IF failAt = 0 \/ failAt > 2 THEN c ELSE NoContact,
                               !.queries = IF failAt = 0 THEN contextQueries(chat.tenantId, c)
                                           ELSE SubSeq(contextQueries(chat.tenantId, c), 1, failAt),
                               !.contextFailed = failAt # 0,
                               !.businessContext = IF r.threw THEN ContextUnavailable ELSE r.context]
    /\ UNCHANGED <<env, db, semanticCache, logQueue, served, callVars, speechVars, otherVars>>

\* a clarification exit taken on low confidence alone
needsClarificationOnLow(a) == a.confidence = "low"

\* !contextAnalysis.hasEnoughContext && contextAnalysis.confidence === 'low'
needsClarification(a) == ~a.hasEnoughContext /\ a.confidence = "low"

\* analyzePromptContext and the clarifying-question exit; getBusinessContext has
\* returned, its locals (the matched contact, the queries in flight) are gone
ChatAnalyze ==
    /\ chat.pc = "analyze"
    /\ \E a \in AnalysisResults :
          chat' = IF needsClarification(a)
                  THEN [chat EXCEPT !.pc = "done", !.analysis = a, !.contact = NoContact, !.queries = << >>,
                                    !.res = Res(200, "context-analyzer", ClarifyText, TRUE)]
                  ELSE [chat EXCEPT !.pc = "groq", !.analysis = a, !.contact = NoContact, !.queries = << >>]
    /\ UNCHANGED <<env, db, semanticCache, logQueue, served, callVars, speechVars, otherVars>>

\* buildUserMessage (the last reader of contextAnalysis) and the Groq stage
ChatGroq ==
    /\ chat.pc = "groq"
    /\ \/ ~env.GROQ_API_KEY /\ chat' = [stageSkipped(chat, "groq") EXCEPT !.analysis = NoAnalysis]
       \/ env.GROQ_API_KEY /\ "groq" \notin chat.inFlight
             /\ chat' = [stageStarted(chat, "groq") EXCEPT !.analysis = NoAnalysis]
       \/ "groq" \in chat.inFlight /\ \E o \in ProviderOutcomes : chat' = stageCalled(chat, "groq", o)
    /\ UNCHANGED <<env, db, semanticCache, logQueue, served, callVars, speechVars, otherVars>>

ChatOllama ==
    /\ chat.pc = "ollama"
    /\ \/ "ollama" \notin chat.inFlight /\ chat' = stageStarted(chat, "ollama")
       \/ "ollama" \in chat.inFlight /\ \E o \in ProviderOutcomes : chat' = stageCalled(chat, "ollama", o)
    /\ UNCHANGED <<env, db, semanticCache, logQueue, served, callVars, speechVars, otherVars>>

ChatHuggingFace ==
    /\ chat.pc = "huggingface"
    /\ \/ ~env.HUGGINGFACE_API_KEY /\ chat' = stageSkipped(chat, "huggingface")
       \/ env.HUGGINGFACE_API_KEY /\ "huggingface" \notin chat.inFlight
             /\ chat' = stageStarted(chat, "huggingface")
       \/ "huggingface" \in chat.inFlight
             /\ \E o \in ProviderOutcomes : chat' = stageCalled(chat, "huggingface", o)
    /\ UNCHANGED <<env, db, semanticCache, logQueue, served, callVars, speechVars, otherVars>>

ChatOpenAI ==
    /\ chat.pc = "openai"
    /\ \/ ~env.OPENAI_API_KEY /\ chat' = stageSkipped(chat, "openai")
       \/ env.OPENAI_API_KEY /\ "openai" \notin chat.inFlight /\ chat' = stageStarted(chat, "openai")
       \/ "openai" \in chat.inFlight /\ \E o \in ProviderOutcomes : chat' = stageCalled(chat, "openai", o)
    /\ UNCHANGED <<env, db, semanticCache, logQueue, served, callVars, speechVars, otherVars>>

ChatRuleBased ==
    /\ chat.pc = "rule-based"
    /\ chat' = [chat EXCEPT !.attempts = Append(@, Attempt("rule-based", "ok",
                                                          getHelpfulResponse(chat.message, chat.businessContext))),
                            !.hasResponse = TRUE,
                            !.response = getHelpfulResponse(chat.message, chat.businessContext),
                            !.usedService = "rule-based", !.pc = "cache"]
    /\ UNCHANGED <<env, db, semanticCache, logQueue, served, callVars, speechVars, otherVars>>

\* the cache write; an exception of semanticCache.set is swallowed
ChatCache ==
    /\ chat.pc = "cache"
    /\ IF shouldCache(chat.usedService, chat.response)
       THEN /\ chat' = [chat EXCEPT !.pc = "log", !.cacheSets = @ + 1]
            /\ \E ok \in BOOLEAN :
                  semanticCache' = IF ok THEN cacheSet(semanticCache, chat.message, chat.response)
                                   ELSE semanticCache
       ELSE /\ chat' = [chat EXCEPT !.pc = "log"]
            /\ UNCHANGED semanticCache
    /\ UNCHANGED <<env, db, logQueue, served, callVars, speechVars, otherVars>>

\* mediumPriorityQueue.add (its exception is swallowed) and the response
ChatLog ==
    /\ chat.pc = "log"
    /\ \E ok \in BOOLEAN :
          /\ logQueue' = IF ok THEN logQueue \cup {LogJob(chat)} ELSE logQueue
          /\ chat' = [chat EXCEPT !.pc = "done", !.logAdds = @ + 1,
                                  !.res = Res(200, chat.usedService, chat.response, FALSE)]
    /\ UNCHANGED <<env, db, semanticCache, served, callVars, speechVars, otherVars>>

(***************************************************************************)
(* POST /api/calls/webhook: the vendor status mapping.                     *)
(* statusMap is a plain object literal, so a key that is not one of its    *)
(* own properties is looked up on Object.prototype; of the prototype's     *)
(* members only the all-lower-case names can be produced by toLowerCase.   *)
(***************************************************************************)
sRinging == <<"r","i","n","g","i","n","g">>

sInProgress == <<"i","n","-","p","r","o","g","r","e","s","s">>

sCompleted == <<"c","o","m","p","l","e","t","e","d">>

sBusy == <<"b","u","s","y">>

sNoAnswer == <<"n","o","-","a","n","s","w","e","r">>

sFailed == <<"f","a","i","l","e","d">>

sCanceled == <<"c","a","n","c","e","l","e","d">>

sQueued == <<"q","u","e","u","e","d">>

sInitiated == <<"i","n","i","t","i","a","t","e","d">>

sConstructor == <<"c","o","n","s","t","r","u","c","t","o","r">>

sProto == <<"_","_","p","r","o","t","o","_","_">>

statusMap ==
    <<[key |-> sRinging, value |-> "RINGING"], [key |-> sInProgress, value |-> "ANSWERED"],
      [key |-> sCompleted, value |-> "COMPLETED"], [key |-> sBusy, value |-> "BUSY"],
      [key |-> sNoAnswer, value |-> "NO_ANSWER"], [key |-> sFailed, value |-> "FAILED"],
      [key |-> sCanceled, value |-> "FAILED"]>>

objectPrototype ==
    <<[key |-> sConstructor, value |-> "[Function: Object]"],
      [key |-> sProto, value |-> "[Object: null prototype] {}"]>>

hasKey(table, key) == \E i \in DOMAIN table : table[i].key = key

valueAt(table, key) == table[CHOOSE i \in DOMAIN table : table[i].key = key].value

\* statusMap[key]: own property, else inherited property, else undefined
propertyOf(key) ==
    IF hasKey(statusMap, key) THEN valueAt(statusMap, key)
    ELSE IF hasKey(objectPrototype, key) THEN valueAt(objectPrototype, key)
    ELSE "undefined"

\* statusMap[status.toLowerCase()] || 'RINGING'
mapTwilioStatus(status) ==
    IF propertyOf(toLowerCase(status)) = "undefined" THEN "RINGING"
    ELSE propertyOf(toLowerCase(status))

CallStatusStrings == {"RINGING", "ANSWERED", "COMPLETED", "BUSY", "NO_ANSWER", "FAILED"}

(***************************************************************************)
(* POST /api/calls/webhook: the handler.  Deliveries are handled           *)
(* concurrently; each await is a step.                                     *)
(***************************************************************************)
MaxDeliveries == 2

Deliveries == 1..MaxDeliveries

Sids == {"CA1", "CA2"}

\* CallStatus of the form: the vendor's names, one of them capitalised, and one the map lacks
HookStatuses == {sRinging, <<"R","i","n","g","i","n","g">>, sInProgress, sCompleted, sBusy, sQueued}

Directions == {"inbound", "outbound-api"}

NoCall == [id |-> "none", twilioCallSid |-> "none", status |-> "none", direction |-> "none",
           answeredAt |-> "null", endedAt |-> "null", tenantId |-> "none"]

NoHookRes == [status |-> 0, body |-> "none"]

IdleHook == [pc |-> "idle", auth |-> "anonymous", sid |-> "none", callStatus |-> << >>, direction |-> "none",
             call |-> NoCall, dbOps |-> 0, res |-> NoHookRes]

TwiML == [status |-> 200, body |-> "twiml"]

HookSuccess == [status |-> 200, body |-> "success"]

HookFailed == [status |-> 500, body |-> "Failed to process webhook"]

\* prisma.aICall.findUnique({ where: { twilioCallSid } })
findCall(store, sid) ==
    IF \E c \in store : c.twilioCallSid = sid
    THEN CHOOSE c \in store : c.twilioCallSid = sid
    ELSE NoCall

\* the record prisma.aICall.create stores
createdCall(h) ==
    [id |-> h.sid, twilioCallSid |-> h.sid, status |-> mapTwilioStatus(h.callStatus),
     direction |-> IF h.direction = "inbound" THEN "INBOUND" ELSE "OUTBOUND",
     answeredAt |-> "null", endedAt |-> "null", tenantId |-> "default"]

\* the data prisma.aICall.update writes over the stored row
updatedCall(row, h) ==
    [row EXCEPT !.status = mapTwilioStatus(h.callStatus),
                !.answeredAt = IF h.callStatus = sInProgress THEN "date" ELSE h.call.answeredAt,
                !.endedAt = IF h.callStatus = sCompleted THEN "date" ELSE h.call.endedAt]

\* the response after the write
hookResponse(callStatus) ==
    IF callStatus = sRinging \/ callStatus = sInProgress THEN TwiML ELSE HookSuccess

HookReceive(d) ==
    /\ hook[d].pc = "idle"
    /\ \E sid \in Sids, st \in HookStatuses, dir \in Directions :
          hook' = [hook EXCEPT ![d] = [IdleHook EXCEPT !.pc = "find", !.sid = sid, !.callStatus = st,
                                                       !.direction = dir]]
    /\ UNCHANGED <<calls, mapIn, mapOut, chatVars, speechVars, otherVars>>

HookFind(d) ==
    /\ hook[d].pc = "find"
    /\ hook' = [hook EXCEPT ![d].pc = "write", ![d].call = findCall(calls, hook[d].sid), ![d].dbOps = @ + 1]
    /\ UNCHANGED <<calls, mapIn, mapOut, chatVars, speechVars, otherVars>>

\* create (the unique index on twilioCallSid rejects a second row) or update;
\* any exception is answered with status 500
HookWrite(d) ==
    /\ hook[d].pc = "write"
    /\ LET h == hook[d] IN
       IF mapTwilioStatus(h.callStatus) \notin CallStatusStrings
       THEN /\ hook' = [hook EXCEPT ![d].pc = "done", ![d].dbOps = @ + 1, ![d].res = HookFailed]
            /\ UNCHANGED calls
       ELSE IF h.call = NoCall
       THEN IF \E c \in calls : c.twilioCallSid = h.sid
            THEN /\ hook' = [hook EXCEPT ![d].pc = "done", ![d].dbOps = @ + 1, ![d].res = HookFailed]
                 /\ UNCHANGED calls
            ELSE /\ calls' = calls \cup {createdCall(h)}
                 /\ hook' = [hook EXCEPT ![d].pc = "done", ![d].dbOps = @ + 1,
                                         ![d].res = hookResponse(h.callStatus)]
       ELSE /\ calls' = {IF c.id = h.call.id THEN updatedCall(c, h) ELSE c : c \in calls}
            /\ hook' = [hook EXCEPT ![d].pc = "done", ![d].dbOps = @ + 1,
                                    ![d].res = hookResponse(h.callStatus)]
    /\ UNCHANGED <<mapIn, mapOut, chatVars, speechVars, otherVars>>

(***************************************************************************)
(* mapTwilioStatus applied to one input.                                   *)
(***************************************************************************)
upperAt(s, i) ==
    [j \in 1..Len(s) |-> IF j = i /\ \E k \in DOMAIN Lower : Lower[k] = s[j]
                         THEN Upper[CHOOSE k \in DOMAIN Lower : Lower[k] = s[j]] ELSE s[j]]

toUpperCase(s) ==
    [j \in 1..Len(s) |-> IF \E k \in DOMAIN Lower : Lower[k] = s[j]
                         THEN Upper[CHOOSE k \in DOMAIN Lower : Lower[k] = s[j]] ELSE s[j]]

VendorNames == {sRinging, sInProgress, sCompleted, sBusy, sNoAnswer, sFailed, sCanceled}

StatusInputs ==
    VendorNames
    \cup {toUpperCase(s) : s \in VendorNames}
    \cup UNION {{upperAt(s, i) : i \in 1..Len(s)} : s \in VendorNames}
    \cup {sQueued, sInitiated, << >>, sConstructor, sProto, toUpperCase(sConstructor)}

MapApply ==
    /\ mapOut = "unset"
    /\ mapOut' = mapTwilioStatus(mapIn)
    /\ UNCHANGED <<mapIn, calls, hook, chatVars, speechVars, otherVars>>
(***************************************************************************)
(* POST /api/ai/text-to-speech.  aiGateway is a module-level singleton;    *)
(* gateway.token is the token it holds, gateway.useGateway says whether    *)
(* AI_GATEWAY_URL or USE_AI_GATEWAY is configured.                         *)
(***************************************************************************)
Bodies == {"valid", "invalid", "malformed"}

Tokens == {"none", "tokA", "tokB"}

\* a response: its status, the error text of its JSON body (body) and the other keys of the body
NoTtsRes == [status |-> 0, body |-> "none", fields |-> {}]

\* seq counts the requests the process has handled; the other fields are one request's
IdleTts == [pc |-> "idle", seq |-> 0, auth |-> "ok", body |-> "valid", token |-> "none", gatewayCalls |-> 0,
            usedToken |-> "none", res |-> NoTtsRes]

MaxSpeech == 2

\* one request after another in the same process: aiGateway outlives each of them
TtsArrives(limit, credentials) ==
    /\ tts.pc \in {"idle", "done"}
    /\ tts.seq < limit
    /\ \E a \in credentials, b \in Bodies, t \in Tokens :
          tts' = [IdleTts EXCEPT !.pc = "auth", !.seq = tts.seq + 1, !.auth = a, !.body = b, !.token = t]
    /\ UNCHANGED <<gateway, chatVars, callVars, otherVars>>

TtsRequest == TtsArrives(MaxSpeech, Credentials)

\* requireModuleAccess; the catch block answers every error that is not a ZodError with 500
TtsAuth ==
    /\ tts.pc = "auth"
    /\ tts' = IF requireModuleAccess(tts.auth)
              THEN [tts EXCEPT !.pc = "parse"]
              ELSE [tts EXCEPT !.pc = "done", !.res = [status |-> 500, body |-> "Failed to generate speech", fields |-> {"details"}]]
    /\ UNCHANGED <<gateway, chatVars, callVars, otherVars>>

\* request.json(), ttsSchema.parse, aiGateway.setToken (only when the request has an
\* Authorization header) and the start of the gateway call, which uses the token the
\* singleton holds
TtsParse ==
    /\ tts.pc = "parse"
    /\ IF tts.body = "malformed"
       THEN /\ tts' = [tts EXCEPT !.pc = "done", !.res = [status |-> 500, body |-> "Failed to generate speech", fields |-> {"details"}]]
            /\ UNCHANGED gateway
       ELSE IF tts.body = "invalid"
       THEN /\ tts' = [tts EXCEPT !.pc = "done", !.res = [status |-> 400, body |-> "Validation error", fields |-> {"details"}]]
            /\ UNCHANGED gateway
       ELSE /\ gateway' = IF tts.token # "none" THEN [gateway EXCEPT !.token = tts.token] ELSE gateway
            /\ tts' = IF gateway.useGateway
                      THEN [tts EXCEPT !.pc = "gateway", !.gatewayCalls = @ + 1,
                                       !.usedToken = gateway'.token]
                      ELSE [tts EXCEPT !.pc = "done",
                                       !.res = [status |-> 503, body |-> "TTS service not configured",
                                                fields |-> {"message"}]]
    /\ UNCHANGED <<chatVars, callVars, otherVars>>

\* the awaited aiGateway.textToSpeech resolves or rejects
TtsGateway ==
    /\ tts.pc = "gateway"
    /\ \E ok \in BOOLEAN :
          tts' = [tts EXCEPT !.pc = "done",
                             !.res = IF ok THEN [status |-> 200, body |-> "none",
                                                 fields |-> {"audioUrl", "duration", "service"}]
                                     ELSE [status |-> 503, body |-> "TTS service unavailable",
                                           fields |-> {"details"}]]
    /\ UNCHANGED <<gateway, chatVars, callVars, otherVars>>

(***************************************************************************)
(* GET /api/calls/[id], GET /api/calls and POST /api/calls.  The handlers  *)
(* read and write the same aICall store as the webhook.  A requester is a  *)
(* session of a tenant's user, or no session.                              *)
(***************************************************************************)
\* authenticateRequest(request): the user of the session, or null
authenticateRequest(requester) == requester # "none"

MaxCalls == 3

\* the page and limit parameters of the query string; '' stands for an absent one
Pages == {<< >>, <<"2">>, <<"0">>, <<"a","b","c">>}

Limits == {<< >>, <<"1">>, <<"2","x">>, <<"0">>, <<"-","1">>, <<"x">>}

NaN == [nan |-> TRUE, v |-> 0]

digitValue(c) == (CHOOSE i \in 1..10 : <<"0", "1", "2", "3", "4", "5", "6", "7", "8", "9">>[i] = c) - 1

isDigit(c) == \E i \in 1..10 : <<"0", "1", "2", "3", "4", "5", "6", "7", "8", "9">>[i] = c

\* the value of the longest run of digits of s that starts at position i
RECURSIVE digitRun(_, _, _)
digitRun(s, i, acc) ==
    IF i <= Len(s) /\ isDigit(s[i]) THEN digitRun(s, i + 1, acc * 10 + digitValue(s[i])) ELSE acc

\* parseInt(string): optional sign, then the leading digits; NaN without a digit
parseInt(s) ==
    LET signed == Len(s) >= 1 /\ s[1] \in {"-", "+"}
        start == IF signed THEN 2 ELSE 1
    IN  IF start > Len(s) \/ ~isDigit(s[start])
        THEN NaN
        ELSE [nan |-> FALSE, v |-> IF signed /\ s[1] = "-" THEN 0 - digitRun(s, start, 0)
                                   ELSE digitRun(s, start, 0)]

StatusFilters == {"none", "RINGING", "COMPLETED"}

IdleCallsApi ==
    [op |-> "none", user |-> "none", id |-> 0, status |-> "none", page |-> NaN, limit |-> NaN,
     httpStatus |-> 0, error |-> "none", calls |-> << >>, total |-> 0]

\* the row prisma.aICall.create stores for POST /api/calls; startedAt defaults to now()
newCall(n, tenantId) ==
    [id |-> n, twilioCallSid |-> "none", status |-> "RINGING", direction |-> "INBOUND",
     answeredAt |-> "null", endedAt |-> "null", tenantId |-> tenantId, startedAt |-> n]

\* a lookup by id alone
findFirstCallById(store, id, tenantId) ==
    IF \E c \in store : c.id = id
    THEN <<CHOOSE c \in store : c.id = id>>
    ELSE << >>

\* prisma.aICall.findFirst({ where: { id, tenantId: user.tenantId } }): the row or null
findFirstCall(store, id, tenantId) ==
    IF \E c \in store : c.id = id /\ c.tenantId = tenantId
    THEN <<CHOOSE c \in store : c.id = id /\ c.tenantId = tenantId>>
    ELSE << >>

\* the where object of GET /api/calls: tenantId always, status if the parameter is set
callsWhere(store, tenantId, status) ==
    {c \in store : c.tenantId = tenantId /\ (status = "none" \/ c.status = status)}

\* prisma.aICall.findMany({ where, skip, take, orderBy: { startedAt: 'desc' } });
\* a negative take counts from the end of the ordered list
findManyCalls(store, tenantId, status, skip, takeN) ==
    LET matching == callsWhere(store, tenantId, status)
        ordered == SortByKey(matching, [c \in matching |-> 0 - c.startedAt])
        n == Len(ordered)
    IN  IF takeN >= 0
        THEN SubSeq(ordered, skip + 1, IF skip + takeN < n THEN skip + takeN ELSE n)
        ELSE SubSeq(ordered, IF n - skip + takeN + 1 > 1 THEN n - skip + takeN + 1 ELSE 1, n - skip)

\* POST /api/calls
CallsCreate ==
    /\ \E r \in {"none"} \cup Tenants, b \in Bodies :
          IF ~authenticateRequest(r)
          THEN /\ callsApi' = [IdleCallsApi EXCEPT !.op = "create", !.user = r, !.httpStatus = 401,
                                                   !.error = "Unauthorized"]
               /\ UNCHANGED calls
          ELSE IF b = "malformed"
          THEN /\ callsApi' = [IdleCallsApi EXCEPT !.op = "create", !.user = r, !.httpStatus = 500,
                                                   !.error = "Failed to create call"]
               /\ UNCHANGED calls
          ELSE IF b = "invalid"
          THEN /\ callsApi' = [IdleCallsApi EXCEPT !.op = "create", !.user = r, !.httpStatus = 400,
                                                   !.error = "Validation error"]
               /\ UNCHANGED calls
          ELSE /\ Cardinality(calls) < MaxCalls
               /\ calls' = calls \cup {newCall(Cardinality(calls) + 1, r)}
               /\ callsApi' = [IdleCallsApi EXCEPT !.op = "create", !.user = r, !.httpStatus = 201,
                                                   !.calls = <<newCall(Cardinality(calls) + 1, r)>>]
    /\ UNCHANGED <<hook, mapIn, mapOut, chatVars, speechVars, oauth, integrations, image, insights, post>>

\* GET /api/calls/[id]
CallsGetOne ==
    /\ \E r \in {"none"} \cup Tenants, id \in 1..(MaxCalls + 1) :
          callsApi' =
             IF ~authenticateRequest(r)
             THEN [IdleCallsApi EXCEPT !.op = "get", !.user = r, !.id = id, !.httpStatus = 401,
                                       !.error = "Unauthorized"]
             ELSE IF findFirstCall(calls, id, r) = << >>
             THEN [IdleCallsApi EXCEPT !.op = "get", !.user = r, !.id = id, !.httpStatus = 404,
                                       !.error = "Call not found"]
             ELSE [IdleCallsApi EXCEPT !.op = "get", !.user = r, !.id = id, !.httpStatus = 200,
                                       !.calls = findFirstCall(calls, id, r)]
    /\ UNCHANGED <<callVars, chatVars, speechVars, oauth, integrations, image, insights, post>>

\* parseInt(searchParams.get('page') || '1') and parseInt(searchParams.get('limit') || '50')
PageValues == {parseInt(IF p = << >> THEN <<"1">> ELSE p) : p \in Pages}

LimitValues == {parseInt(IF p = << >> THEN <<"5","0">> ELSE p) : p \in Limits}

\* GET /api/calls; prisma rejects a skip or take that is NaN and a negative skip
CallsList ==
    /\ \E r \in {"none"} \cup Tenants, st \in StatusFilters, page \in PageValues, limit \in LimitValues :
          LET asked == [IdleCallsApi EXCEPT !.op = "list", !.user = r, !.status = st, !.page = page,
                                            !.limit = limit]
          IN  callsApi' =
                 IF ~authenticateRequest(r)
                 THEN [asked EXCEPT !.httpStatus = 401, !.error = "Unauthorized"]
                 ELSE IF page.nan \/ limit.nan
                 THEN [asked EXCEPT !.httpStatus = 500, !.error = "Failed to get calls"]
                 ELSE IF (page.v - 1) * limit.v < 0
                 THEN [asked EXCEPT !.httpStatus = 500, !.error = "Failed to get calls"]
                 ELSE [asked EXCEPT !.httpStatus = 200,
                                    !.calls = findManyCalls(calls, r, st, (page.v - 1) * limit.v, limit.v),
                                    !.total = Cardinality(callsWhere(calls, r, st))]
    /\ UNCHANGED <<callVars, chatVars, speechVars, oauth, integrations, image, insights, post>>

(***************************************************************************)
(* GET /api/ai/google-ai-studio/callback: the OAuth callback.  integrations*)
(* is the oAuthIntegration table, unique on (tenantId, provider); null is  *)
(* "none" and a null expiresAt is 0.                                       *)
(***************************************************************************)
MaxCallbacks == 2

\* the state parameter: absent, not base64 JSON, JSON without tenantId, or a tenant's
StateParams == {"none", "garbage", "empty", "t1", "t2"}

\* bodies of the token endpoint's answer
TokenResponses ==
    {[access_token |-> "a1", refresh_token |-> "r1", expires_in |-> 3600, token_type |-> "MAC", scope |-> "s1"],
     [access_token |-> "a2", refresh_token |-> "none", expires_in |-> 0, token_type |-> "none", scope |-> "none"],
     [access_token |-> "a3", refresh_token |-> "r3", expires_in |-> 7200, token_type |-> "none", scope |-> "s3"],
     [access_token |-> "none", refresh_token |-> "none", expires_in |-> 0, token_type |-> "none", scope |-> "none"]}

NoTokens == [access_token |-> "none", refresh_token |-> "none", expires_in |-> 0, token_type |-> "none", scope |-> "none"]

\* configured: GOOGLE_CLIENT_ID and GOOGLE_CLIENT_SECRET are set; seq counts the callbacks
IdleOAuth ==
    [pc |-> "idle", seq |-> 0, configured |-> TRUE, error |-> "none", code |-> "none", state |-> "none",
     tenantId |-> "none", tokenOk |-> FALSE, tokens |-> NoTokens, redirect |-> "none"]

\* the checks before the token exchange: the error code of the redirect, or "none"
callbackError(o) ==
    IF o.error # "none" THEN o.error
    ELSE IF o.code = "none" \/ o.state = "none" THEN "missing_parameters"
    ELSE IF o.state = "garbage" THEN "invalid_state"
    ELSE IF ~o.configured THEN "oauth_not_configured"
    ELSE "none"

\* JSON.parse(Buffer.from(state, 'base64').toString()).tenantId
stateTenant(state) == IF state = "empty" THEN "undefined" ELSE state

\* an exchange check that looks at the HTTP status only
exchangeErrorByStatus(ok, tokens) == IF ~ok THEN "token_exchange_failed" ELSE "none"

\* !tokenResponse.ok, then !tokens.access_token
exchangeError(ok, tokens) ==
    IF ~ok THEN "token_exchange_failed"
    ELSE IF tokens.access_token = "none" THEN "no_access_token"
    ELSE "none"

\* an upsert whose update branch writes refreshToken: tokens.refresh_token || null
upsertIntegrationNullingRefresh(store, tenantId, tokens, email) ==
    {x \in store : x.tenantId # tenantId}
       \cup {[tenantId |-> tenantId, provider |-> "google-ai-studio", accessToken |-> tokens.access_token,
              refreshToken |-> tokens.refresh_token, expiresAt |-> tokens.expires_in,
              tokenType |-> IF tokens.token_type = "none" THEN "Bearer" ELSE tokens.token_type,
              scope |-> tokens.scope, providerEmail |-> email]}

\* prisma.oAuthIntegration.upsert on tenantId_provider: in the update branch an
\* undefined value (refreshToken, providerEmail) leaves the stored field unchanged
upsertIntegration(store, tenantId, tokens, email) ==
    LET created == [tenantId |-> tenantId, provider |-> "google-ai-studio",
                    accessToken |-> tokens.access_token, refreshToken |-> tokens.refresh_token,
                    expiresAt |-> tokens.expires_in,
                    tokenType |-> IF tokens.token_type = "none" THEN "Bearer" ELSE tokens.token_type,
                    scope |-> tokens.scope, providerEmail |-> email]
    IN  IF \E x \in store : x.tenantId = tenantId /\ x.provider = "google-ai-studio"
        THEN {IF x.tenantId = tenantId /\ x.provider = "google-ai-studio"
              THEN [created EXCEPT !.refreshToken = IF tokens.refresh_token = "none" THEN x.refreshToken
                                                    ELSE tokens.refresh_token,
                                   !.providerEmail = IF email = "none" THEN x.providerEmail ELSE email]
              ELSE x : x \in store}
        ELSE store \cup {created}

OAuthArrives ==
    /\ oauth.pc \in {"idle", "done"}
    /\ oauth.seq < MaxCallbacks
    /\ \E e \in {"none", "access_denied"}, c \in {"none", "code"}, s \in StateParams :
          oauth' = [IdleOAuth EXCEPT !.pc = "check", !.seq = oauth.seq + 1, !.configured = oauth.configured,
                                     !.error = e, !.code = c, !.state = s]
    /\ UNCHANGED <<chatVars, callVars, speechVars, callsApi, integrations, image, insights, post>>

\* the parameter checks, the decoding of state and the client credentials
OAuthCheck ==
    /\ oauth.pc = "check"
    /\ oauth' = IF callbackError(oauth) # "none"
                THEN [oauth EXCEPT !.pc = "done", !.redirect = callbackError(oauth)]
                ELSE [oauth EXCEPT !.pc = "exchange", !.tenantId = stateTenant(oauth.state)]
    /\ UNCHANGED <<chatVars, callVars, speechVars, callsApi, integrations, image, insights, post>>

\* fetch of the token endpoint; a rejected fetch or an unreadable body reaches the outer catch
OAuthExchange ==
    /\ oauth.pc = "exchange"
    /\ \/ oauth' = [oauth EXCEPT !.pc = "done", !.redirect = "oauth_failed"]
       \/ \E ok \in BOOLEAN, t \in TokenResponses :
             oauth' = IF exchangeError(ok, t) # "none"
                      THEN [oauth EXCEPT !.pc = "done", !.tokenOk = ok, !.tokens = t,
                                         !.redirect = exchangeError(ok, t)]
                      ELSE [oauth EXCEPT !.pc = "store", !.tokenOk = ok, !.tokens = t]
    /\ UNCHANGED <<chatVars, callVars, speechVars, callsApi, integrations, image, insights, post>>

\* the optional userinfo fetch, the upsert (it throws for an undefined tenantId or a
\* failing database) and the redirect
OAuthStore ==
    /\ oauth.pc = "store"
    /\ \E email \in {"none", "e1"}, dbOk \in BOOLEAN :
          IF oauth.tenantId = "undefined" \/ ~dbOk
          THEN /\ oauth' = [oauth EXCEPT !.pc = "done", !.redirect = "oauth_failed"]
               /\ UNCHANGED integrations
          ELSE /\ integrations' = upsertIntegration(integrations, oauth.tenantId, oauth.tokens, email)
               /\ oauth' = [oauth EXCEPT !.pc = "done", !.redirect = "google_connected"]
    /\ UNCHANGED <<chatVars, callVars, speechVars, callsApi, image, insights, post>>

(***************************************************************************)
(* POST /api/ai/generate-image (app/api/ai/generate-image/route.ts).       *)
(* image.called is the list of provider calls the request has made, each   *)
(* with its outcome; image.status is 0 until the response is sent.         *)
(***************************************************************************)
requireAIStudioAccess(credential) == credential = "ok"

ImageProviders == {"none", "auto", "nanobanana", "huggingface", "google-ai-studio", "self-hosted"}

\* status codes the Google AI Studio route answers with when it fails
GoogleFailures == {400, 500}

IdleImage ==
    [pc |-> "idle", auth |-> "ok", promptOk |-> TRUE, provider |-> "auto", tenantKey |-> FALSE,
     nano |-> FALSE, token |-> "none", lookedUp |-> FALSE, called |-> << >>, status |-> 0, error |-> "none"]

\* body.provider || 'auto'
providerOf(p) == IF p = "none" THEN "auto" ELSE p

shouldUseGoogle(provider) == provider \in {"auto", "google-ai-studio"}

huggingFaceFallbackAlways(provider) == TRUE

\* the guard of the Hugging Face fallback block
huggingFaceFallback(provider) == provider = "auto"

imageCall(i, name, ok) == Append(i.called, [provider |-> name, ok |-> ok])

imageDone(i, status, error) == [i EXCEPT !.pc = "done", !.status = status, !.error = error]

ImageArrives ==
    /\ image.pc \in {"idle", "done"}
    /\ \E a \in Credentials, ok \in BOOLEAN, p \in ImageProviders, k \in BOOLEAN, n \in BOOLEAN,
          t \in Tokens :
          image' = [IdleImage EXCEPT !.pc = "admit", !.auth = a, !.promptOk = ok, !.provider = providerOf(p),
                                     !.tenantKey = k, !.nano = n, !.token = t]
    /\ UNCHANGED <<chatVars, callVars, speechVars, callsApi, oauth, integrations, insights, post>>

\* the authenticator, the schema, aiGateway.setToken and the choice of the explicit blocks
ImageAdmit ==
    /\ image.pc = "admit"
    /\ image' = IF ~requireAIStudioAccess(image.auth)
                  THEN imageDone(image, handleLicenseError(image.auth), "license")
                ELSE IF ~image.promptOk
                  THEN imageDone(image, 400, "Validation error")
                ELSE IF image.provider = "nanobanana" THEN [image EXCEPT !.pc = "nanobanana"]
                ELSE IF image.provider = "huggingface" THEN [image EXCEPT !.pc = "huggingface"]
                ELSE [image EXCEPT !.pc = "lookup"]
    /\ gateway' = IF requireAIStudioAccess(image.auth) /\ image.promptOk /\ image.token # "none"
                  THEN [gateway EXCEPT !.token = image.token] ELSE gateway
    /\ UNCHANGED <<chatVars, callVars, tts, callsApi, oauth, integrations, insights, post>>

\* provider === 'nanobanana'
ImageNanoBanana ==
    /\ image.pc = "nanobanana"
    /\ IF ~image.nano
         THEN image' = imageDone(image, 503, "Nano Banana service not configured")
         ELSE \E ok \in BOOLEAN :
                image' = [imageDone(image, IF ok THEN 200 ELSE 500, IF ok THEN "none" ELSE "Nano Banana API error")
                            EXCEPT !.called = imageCall(image, "nanobanana", ok)]
    /\ UNCHANGED <<chatVars, callVars, speechVars, callsApi, oauth, integrations, insights, post>>

\* provider === 'huggingface'
ImageHuggingFace ==
    /\ image.pc = "huggingface"
    /\ IF ~env.HUGGINGFACE_API_KEY
         THEN image' = imageDone(image, 503, "Hugging Face Inference API key not configured")
         ELSE \E ok \in BOOLEAN :
                image' = [imageDone(image, IF ok THEN 200 ELSE 500,
                                    IF ok THEN "none" ELSE "Hugging Face Inference API error")
                            EXCEPT !.called = imageCall(image, "huggingface", ok)]
    /\ UNCHANGED <<chatVars, callVars, speechVars, callsApi, oauth, integrations, insights, post>>

\* prisma.tenant.findUnique for the tenant's own Google AI Studio key
ImageLookup ==
    /\ image.pc = "lookup"
    /\ \E found \in BOOLEAN :
          image' = IF ~found THEN imageDone(image, 500, "Failed to generate image")
                   ELSE IF shouldUseGoogle(image.provider) /\ image.tenantKey
                     THEN [image EXCEPT !.pc = "google", !.lookedUp = TRUE]
                   ELSE [image EXCEPT !.pc = "fallback", !.lookedUp = TRUE]
    /\ UNCHANGED <<chatVars, callVars, speechVars, callsApi, oauth, integrations, insights, post>>

\* fetch of the Google AI Studio route: ok, a failure status, or a rejected fetch (0)
ImageGoogle ==
    /\ image.pc = "google"
    /\ \E r \in {200, 0} \cup GoogleFailures :
          image' = [(IF r = 200 THEN imageDone(image, 200, "none")
                     ELSE IF image.provider = "google-ai-studio"
                       THEN (IF r = 0 THEN imageDone(image, 500, "Google AI Studio error")
                                      ELSE imageDone(image, r, "google"))
                     ELSE [image EXCEPT !.pc = "fallback"])
                      EXCEPT !.called = imageCall(image, "google-ai-studio", r = 200)]
    /\ UNCHANGED <<chatVars, callVars, speechVars, callsApi, oauth, integrations, insights, post>>

\* the Hugging Face fallback block and the closing 'not configured' response
ImageFallback ==
    /\ image.pc = "fallback"
    /\ IF huggingFaceFallback(image.provider) /\ env.HUGGINGFACE_API_KEY
         THEN \E ok \in BOOLEAN :
                image' = [imageDone(image, IF ok THEN 200 ELSE 503,
                                    IF ok THEN "none" ELSE "Image generation service not configured")
                            EXCEPT !.called = imageCall(image, "huggingface", ok)]
         ELSE image' = imageDone(image, 503, "Image generation service not configured")
    /\ UNCHANGED <<chatVars, callVars, speechVars, callsApi, oauth, integrations, insights, post>>

(***************************************************************************)
(* GET /api/ai/insights.  insights.metrics are the figures computed from   *)
(* the tenant's rows, insights.tried the provider calls made so far, and   *)
(* insights.parsed the value of parsedInsights.                            *)
(***************************************************************************)
\* the figures around the thresholds of generateRuleBasedInsights
Metrics ==
    {m \in [totalRevenue : {0, 100000}, pendingInvoices : {0, 1}, totalPendingAmount : {0, 10001},
            forecastedRevenue : {0, 500}, activeDeals : {0, 5}, atRiskContacts : {0, 1},
            highValueLeads : {0, 1}, pendingTasks : {0, 6, 11}] :
        /\ m.pendingInvoices = 0 => m.totalPendingAmount = 0
        /\ m.activeDeals = 0 => m.forecastedRevenue = 0}

NoMetrics ==
    [totalRevenue |-> 0, pendingInvoices |-> 0, totalPendingAmount |-> 0, forecastedRevenue |-> 0,
     activeDeals |-> 0, atRiskContacts |-> 0, highValueLeads |-> 0, pendingTasks |-> 0]

NoInsights ==
    [kind |-> "none", urgentActions |-> << >>, opportunities |-> << >>, risks |-> << >>,
     recommendations |-> << >>, improvements |-> << >>]

\* a completion: JSON text with the five lists, text that is not JSON, or an exception
Completions == {"json", "text", "raised"}

pushIf(list, cond, item) == IF cond THEN Append(list, item) ELSE list

orDefault(list, item) == IF Len(list) > 0 THEN list ELSE <<item>>

generateRuleBasedInsightsBare(metrics) ==
    [kind |-> "rules",
     urgentActions |-> pushIf(<< >>, metrics.pendingInvoices > 0, "Follow up on pending invoice(s)"),
     opportunities |-> pushIf(<< >>, metrics.activeDeals > 0, "Accelerate active deal(s)"),
     risks |-> pushIf(<< >>, metrics.atRiskContacts > 0, "contact(s) are at risk of churning"),
     recommendations |-> pushIf(<< >>, metrics.activeDeals < 5, "Build a stronger pipeline"),
     improvements |-> pushIf(<< >>, metrics.pendingInvoices > 0, "Set up automated invoice reminders")]

generateRuleBasedInsights(metrics) ==
    LET urgentActions ==
            pushIf(pushIf(pushIf(<< >>, metrics.pendingInvoices > 0, "Follow up on pending invoice(s)"),
                          metrics.pendingTasks > 5, "Complete pending tasks"),
                   metrics.atRiskContacts > 0, "Re-engage at-risk contact(s)")
        opportunities ==
            pushIf(pushIf(pushIf(<< >>, metrics.forecastedRevenue > 0, "Focus on closing active deals"),
                          metrics.highValueLeads > 0, "Nurture high-value lead(s)"),
                   metrics.activeDeals > 0, "Accelerate active deal(s)")
        risks ==
            pushIf(pushIf(<< >>, metrics.totalPendingAmount > 10000, "High pending invoice amount"),
                   metrics.atRiskContacts > 0, "contact(s) are at risk of churning")
        recommendations ==
            pushIf(pushIf(<< >>, metrics.totalRevenue < 100000, "Focus on increasing revenue"),
                   metrics.activeDeals < 5, "Build a stronger pipeline")
        improvements ==
            pushIf(pushIf(<< >>, metrics.pendingTasks > 10, "Implement task prioritization"),
                   metrics.pendingInvoices > 0, "Set up automated invoice reminders")
    IN [kind |-> "rules",
        urgentActions |-> orDefault(urgentActions, "No urgent actions at this time"),
        opportunities |-> orDefault(opportunities, "Continue building your pipeline"),
        risks |-> orDefault(risks, "No major risks identified"),
        recommendations |-> orDefault(recommendations, "Keep up the good work!"),
        improvements |-> orDefault(improvements, "System is running smoothly")]

\* JSON.parse of the completion; text that does not parse gives five empty lists and raw
parseInsights(completion) ==
    IF completion = "json"
      THEN [NoInsights EXCEPT !.kind = "parsed", !.urgentActions = <<"AI action">>, !.risks = <<"AI risk">>]
      ELSE [NoInsights EXCEPT !.kind = "raw"]

IdleInsights ==
    [pc |-> "idle", auth |-> "ok", metrics |-> NoMetrics, tried |-> << >>, parsed |-> NoInsights,
     logged |-> FALSE, status |-> 0, fields |-> {}]

insightsTried(i, stage, completion) == Append(i.tried, [stage |-> stage, ok |-> completion # "raised"])

InsightsArrives ==
    /\ insights.pc \in {"idle", "done"}
    /\ \E a \in Credentials : insights' = [IdleInsights EXCEPT !.pc = "read", !.auth = a]
    /\ UNCHANGED <<chatVars, callVars, speechVars, callsApi, oauth, integrations, image, post>>

\* the authenticator, the five queries and the figures computed from their rows
InsightsRead ==
    /\ insights.pc = "read"
    /\ IF ~requireAIStudioAccess(insights.auth)
         THEN insights' = [insights EXCEPT !.pc = "done", !.status = handleLicenseError(insights.auth),
                                           !.fields = {"error"}]
         ELSE \E read \in BOOLEAN, m \in Metrics :
                insights' = IF read THEN [insights EXCEPT !.pc = "ollama", !.metrics = m]
                            ELSE [insights EXCEPT !.pc = "done", !.status = 500, !.fields = {"error"}]
    /\ UNCHANGED <<chatVars, callVars, speechVars, callsApi, oauth, integrations, image, post>>

InsightsOllama ==
    /\ insights.pc = "ollama"
    /\ \E c \in Completions :
          insights' = [insights EXCEPT !.tried = insightsTried(insights, "ollama", c),
                                       !.pc = IF c = "raised" THEN "groq" ELSE "respond",
                                       !.parsed = IF c = "raised" THEN @ ELSE parseInsights(c)]
    /\ UNCHANGED <<chatVars, callVars, speechVars, callsApi, oauth, integrations, image, post>>

\* the Groq call in the catch of the Ollama call, and the rule-based generator in the outer catch
InsightsGroq ==
    /\ insights.pc = "groq"
    /\ \E c \in Completions :
          insights' = [insights EXCEPT !.tried = insightsTried(insights, "groq", c),
                                       !.pc = "respond",
                                       !.parsed = IF c = "raised" THEN generateRuleBasedInsights(insights.metrics)
                                                  ELSE parseInsights(c)]
    /\ UNCHANGED <<chatVars, callVars, speechVars, callsApi, oauth, integrations, image, post>>

\* mediumPriorityQueue.add (not awaited: a rejection does not reach the response) and the response
InsightsRespond ==
    /\ insights.pc = "respond"
    /\ \E queued \in BOOLEAN :
          insights' = [insights EXCEPT !.pc = "done", !.logged = queued, !.status = 200,
                                       !.fields = {"insights", "metrics", "generatedAt"}]
    /\ UNCHANGED <<chatVars, callVars, speechVars, callsApi, oauth, integrations, image, post>>

(***************************************************************************)
(* POST /api/ai/generate-post.  post.topic is the topic of the body (a     *)
(* string, or absent), post.tried the provider calls made so far with the  *)
(* message each returned, post.res the response.                           *)
(***************************************************************************)
Topics == {<< >>, <<" "," "," ">>, <<"s","a","l","e">>, <<" ","s","a","l","e"," ","n","o","w"," ">>, <<"s","a","l","e"," ","t","o","d","a","y">>, <<" ","b","i","g"," ","s","a","l","e"," ","t","o","d","a","y"," ">>}

Platforms == {"none", "linkedin", "tiktok", "constructor"}

Tones == {"none", "enthusiastic", "friendly"}

Lengths == {"none", "long"}

\* a provider client's chat(): a message (possibly '') or an exception
PostCompletions ==
    {[ok |-> TRUE, message |-> <<"A","I"," ","p","o","s","t">>], [ok |-> TRUE, message |-> << >>], [ok |-> FALSE, message |-> << >>]}

NoPostRes == [status |-> 0, error |-> "none", needsClarification |-> FALSE, post |-> << >>, service |-> "none"]

IdlePost ==
    [pc |-> "idle", auth |-> "ok", given |-> TRUE, topic |-> << >>, platform |-> "none", tone |-> "none",
     length |-> "none", tried |-> << >>, generatedPost |-> << >>, usedService |-> "rule-based", res |-> NoPostRes]

\* generatePostSchema: topic is a string of at least one character
generatePostSchema(given, topic) == given /\ Len(topic) >= 1

topicTooVagueUntrimmed(topic) == Len(topic) = 0 \/ Len(topic) < 10

\* !validated.topic || validated.topic.trim().length < 10
topicTooVague(topic) == Len(topic) = 0 \/ Len(trim(topic)) < 10

\* platformEmojis[platform || 'general'] || the default; an inherited property is found too
platformEmoji(platform) ==
    CASE platform = "linkedin" -> <<"[","b","r","i","e","f","c","a","s","e","]">>
      [] platform = "constructor" -> <<"f","u","n","c","t","i","o","n"," ","O","b","j","e","c","t","(",")"," ","{"," ","[","n","a","t","i","v","e"," ","c","o","d","e","]"," ","}">>
      [] OTHER -> <<"[","s","p","a","r","k","l","e","s","]">>

generateRuleBasedPost(topic, platform, tone, length) ==
    trim(platformEmoji(platform) \o <<" ">> \o topic \o <<"\n", "\n">>
         \o (CASE tone = "enthusiastic" -> <<"W","e","'","r","e"," ","e","x","c","i","t","e","d"," ","t","o"," ","s","h","a","r","e"," ","t","h","i","s"," ","w","i","t","h"," ","y","o","u","!">> \o <<"\n", "\n">>
               [] tone = "friendly" -> <<"W","e"," ","h","o","p","e"," ","y","o","u"," ","f","i","n","d"," ","t","h","i","s"," ","h","e","l","p","f","u","l","!">> \o <<"\n", "\n">>
               [] OTHER -> << >>)
         \o (IF length = "long"
               THEN <<"S","t","a","y"," ","t","u","n","e","d"," ","f","o","r"," ","m","o","r","e"," ","u","p","d","a","t","e","s"," ","a","n","d"," ","i","n","s","i","g","h","t","s","."," ","W","e"," ","v","a","l","u","e"," ","y","o","u","r"," ","s","u","p","p","o","r","t"," ","a","n","d"," ","e","n","g","a","g","e","m","e","n","t","!">>
                    \o <<"\n", "\n">>
               ELSE << >>)
         \o <<"#","B","u","s","i","n","e","s","s"," ","#","G","r","o","w","t","h"," ","#","S","u","c","c","e","s","s">>)

postTried(p, stage, c) == Append(p.tried, [stage |-> stage, ok |-> c.ok, message |-> c.message])

PostArrives ==
    /\ post.pc \in {"idle", "done"}
    /\ \E a \in Credentials, g \in BOOLEAN, t \in Topics, pl \in Platforms, tn \in Tones, ln \in Lengths :
          /\ ~g => t = << >>
          /\ post' = [IdlePost EXCEPT !.pc = "admit", !.auth = a, !.given = g, !.topic = t, !.platform = pl,
                                      !.tone = tn, !.length = ln]
    /\ UNCHANGED <<chatVars, callVars, speechVars, callsApi, oauth, integrations, image, insights>>

\* the authenticator, the schema, the topic check and the read of the tenant row
PostAdmit ==
    /\ post.pc = "admit"
    /\ IF ~requireModuleAccess(post.auth)
         THEN post' = [post EXCEPT !.pc = "done",
                          !.res = [NoPostRes EXCEPT !.status = handleLicenseError(post.auth), !.error = "license"]]
       ELSE IF ~generatePostSchema(post.given, post.topic)
         THEN post' = [post EXCEPT !.pc = "done",
                          !.res = [NoPostRes EXCEPT !.status = 400, !.error = "Validation error"]]
       ELSE IF topicTooVague(post.topic)
         THEN post' = [post EXCEPT !.pc = "done",
                          !.res = [NoPostRes EXCEPT !.status = 400, !.error = "Topic too vague",
                                                    !.needsClarification = TRUE]]
       ELSE \E found \in BOOLEAN :
              post' = IF found THEN [post EXCEPT !.pc = "groq"]
                      ELSE [post EXCEPT !.pc = "done",
                               !.res = [NoPostRes EXCEPT !.status = 500, !.error = "Failed to generate post"]]
    /\ UNCHANGED <<chatVars, callVars, speechVars, callsApi, oauth, integrations, image, insights>>

\* groq.chat when GROQ_API_KEY is set, else the thrown 'Groq not configured'
PostGroq ==
    /\ post.pc = "groq"
    /\ IF ~env.GROQ_API_KEY
         THEN post' = [post EXCEPT !.pc = "ollama"]
         ELSE \E c \in PostCompletions :
                post' = IF c.ok
                          THEN [post EXCEPT !.pc = "respond", !.tried = postTried(post, "groq", c),
                                            !.generatedPost = c.message, !.usedService = "groq"]
                          ELSE [post EXCEPT !.pc = "ollama", !.tried = postTried(post, "groq", c)]
    /\ UNCHANGED <<chatVars, callVars, speechVars, callsApi, oauth, integrations, image, insights>>

\* ollama.chat in the catch of the Groq block, and generateRuleBasedPost in its own catch
PostOllama ==
    /\ post.pc = "ollama"
    /\ \E c \in PostCompletions :
          post' = IF c.ok
                    THEN [post EXCEPT !.pc = "respond", !.tried = postTried(post, "ollama", c),
                                      !.generatedPost = c.message, !.usedService = "ollama"]
                    ELSE [post EXCEPT !.pc = "respond", !.tried = postTried(post, "ollama", c),
                                      !.generatedPost = generateRuleBasedPost(post.topic, post.platform,
                                                                              post.tone, post.length),
                                      !.usedService = "rule-based"]
    /\ UNCHANGED <<chatVars, callVars, speechVars, callsApi, oauth, integrations, image, insights>>

PostRespond ==
    /\ post.pc = "respond"
    /\ post' = [post EXCEPT !.pc = "done",
                   !.res = [NoPostRes EXCEPT !.status = 200, !.post = post.generatedPost,
                                             !.service = post.usedService]]
    /\ UNCHANGED <<chatVars, callVars, speechVars, callsApi, oauth, integrations, image, insights>>

\* the endpoints above before their first request
OtherStart ==
    /\ callsApi = IdleCallsApi
    /\ oauth = IdleOAuth
    /\ integrations = {}
    /\ image = IdleImage
    /\ insights = IdleInsights
    /\ post = IdlePost
(***************************************************************************)
(* Specifications.                                                         *)
(***************************************************************************)
EnvAll == [GROQ_API_KEY : BOOLEAN, HUGGINGFACE_API_KEY : BOOLEAN, OPENAI_API_KEY : BOOLEAN]

EnvAllKeys == [GROQ_API_KEY |-> TRUE, HUGGINGFACE_API_KEY |-> TRUE, OPENAI_API_KEY |-> TRUE]

ChatStart ==
    /\ semanticCache = {}
    /\ logQueue = {}
    /\ chat = IdleChat
    /\ served = 0

CallStart ==
    /\ calls = {}
    /\ hook = [d \in Deliveries |-> IdleHook]

MapUnused ==
    /\ mapIn = << >>
    /\ mapOut = "unset"

SpeechStart ==
    /\ tts = IdleTts
    /\ gateway = [useGateway |-> TRUE, token |-> "none"]

\* the chat pipeline, one request after another
Init ==
    /\ env \in EnvAll
    /\ db \in Datasets
    /\ ChatStart
    /\ CallStart
    /\ MapUnused
    /\ SpeechStart
    /\ OtherStart

Next ==
    \/ ChatRequest
    \/ ChatAuth
    \/ ChatParse
    \/ ChatContext
    \/ ChatAnalyze
    \/ ChatGroq
    \/ ChatOllama
    \/ ChatHuggingFace
    \/ ChatOpenAI
    \/ ChatRuleBased
    \/ ChatCache
    \/ ChatLog

Spec == Init /\ [][Next]_vars

\* the chat pipeline asked the same question repeatedly, all providers configured
MaxRepeat == 2

ChatRepeat == ChatArrives(MaxRepeat, RepeatMessages, {"ok"}, {"none"})

InitRepeat ==
    /\ env = EnvAllKeys
    /\ db = DbAcme
    /\ ChatStart
    /\ CallStart
    /\ MapUnused
    /\ SpeechStart
    /\ OtherStart

NextRepeat ==
    \/ ChatRepeat
    \/ ChatAuth
    \/ ChatParse
    \/ ChatContext
    \/ ChatAnalyze
    \/ ChatGroq
    \/ ChatOllama
    \/ ChatHuggingFace
    \/ ChatOpenAI
    \/ ChatRuleBased
    \/ ChatCache
    \/ ChatLog

SpecRepeat == InitRepeat /\ [][NextRepeat]_vars

\* the telephony webhook under concurrent deliveries
InitWebhook ==
    /\ env = EnvAllKeys
    /\ db = DbEmpty
    /\ ChatStart
    /\ CallStart
    /\ MapUnused
    /\ SpeechStart
    /\ OtherStart

NextWebhook ==
    \E d \in Deliveries :
       \/ HookReceive(d)
       \/ HookFind(d)
       \/ HookWrite(d)

SpecWebhook == InitWebhook /\ [][NextWebhook]_vars

\* mapTwilioStatus over its inputs
InitMap ==
    /\ env = EnvAllKeys
    /\ db = DbEmpty
    /\ ChatStart
    /\ CallStart
    /\ mapIn \in StatusInputs
    /\ mapOut = "unset"
    /\ SpeechStart
    /\ OtherStart

NextMap == MapApply

SpecMap == InitMap /\ [][NextMap]_vars

\* requests without a licensed identity, one at a time, to each endpoint
Denied == {"anonymous", "unlicensed"}

NoRequestYet ==
    /\ chat.pc = "idle"
    /\ tts.pc = "idle"
    /\ \A d \in Deliveries : hook[d].pc = "idle"

DeniedChat == NoRequestYet /\ ChatArrives(MaxRequests, ChatMessages, Denied, {"none"})

DeniedTts == NoRequestYet /\ TtsArrives(MaxSpeech, Denied)

DeniedHook == NoRequestYet /\ HookReceive(1)

InitAuth ==
    /\ env = EnvAllKeys
    /\ db = DbAcme
    /\ ChatStart
    /\ CallStart
    /\ MapUnused
    /\ gateway \in [useGateway : BOOLEAN, token : {"none"}]
    /\ tts = IdleTts
    /\ OtherStart

NextAuth ==
    \/ DeniedChat
    \/ ChatAuth
    \/ DeniedTts
    \/ TtsAuth
    \/ DeniedHook
    \/ HookFind(1)
    \/ HookWrite(1)

SpecAuth == InitAuth /\ [][NextAuth]_vars

\* the speech endpoint with every kind of request
InitSpeech ==
    /\ env = EnvAllKeys
    /\ db = DbEmpty
    /\ ChatStart
    /\ CallStart
    /\ MapUnused
    /\ gateway \in [useGateway : BOOLEAN, token : {"none"}]
    /\ tts = IdleTts
    /\ OtherStart

NextSpeech ==
    \/ TtsRequest
    \/ TtsAuth
    \/ TtsParse
    \/ TtsGateway

SpecSpeech == InitSpeech /\ [][NextSpeech]_vars

\* the chat pipeline with the optional module hint of the body
ChatHinted == ChatArrives(MaxRequests, {mEmpty, mDeals}, {"ok"}, ModuleHints)

InitHinted ==
    /\ env \in EnvAll
    /\ db = DbAcme
    /\ ChatStart
    /\ CallStart
    /\ MapUnused
    /\ SpeechStart
    /\ OtherStart

NextHinted ==
    \/ ChatHinted
    \/ ChatAuth
    \/ ChatParse
    \/ ChatContext
    \/ ChatAnalyze
    \/ ChatGroq
    \/ ChatOllama
    \/ ChatHuggingFace
    \/ ChatOpenAI
    \/ ChatRuleBased
    \/ ChatCache
    \/ ChatLog

SpecHinted == InitHinted /\ [][NextHinted]_vars

\* the call endpoints: calls are created and read by users of both tenants
InitCalls ==
    /\ env = EnvAllKeys
    /\ db = DbEmpty
    /\ ChatStart
    /\ CallStart
    /\ MapUnused
    /\ SpeechStart
    /\ OtherStart

NextCalls ==
    \/ CallsCreate
    \/ CallsGetOne
    \/ CallsList

SpecCalls == InitCalls /\ [][NextCalls]_vars

\* the OAuth callback, one callback after another
InitOAuth ==
    /\ env = EnvAllKeys
    /\ db = DbEmpty
    /\ ChatStart
    /\ CallStart
    /\ MapUnused
    /\ SpeechStart
    /\ callsApi = IdleCallsApi
    /\ oauth \in {[IdleOAuth EXCEPT !.configured = b] : b \in BOOLEAN}
    /\ integrations = {}
    /\ image = IdleImage
    /\ insights = IdleInsights
    /\ post = IdlePost

NextOAuth ==
    \/ OAuthArrives
    \/ OAuthCheck
    \/ OAuthExchange
    \/ OAuthStore

SpecOAuth == InitOAuth /\ [][NextOAuth]_vars

InitImage ==
    /\ env \in EnvAll
    /\ db = DbEmpty
    /\ ChatStart
    /\ CallStart
    /\ MapUnused
    /\ SpeechStart
    /\ OtherStart

NextImage ==
    \/ ImageArrives
    \/ ImageAdmit
    \/ ImageNanoBanana
    \/ ImageHuggingFace
    \/ ImageLookup
    \/ ImageGoogle
    \/ ImageFallback

SpecImage == InitImage /\ [][NextImage]_vars

InitInsights ==
    /\ env = EnvAllKeys
    /\ db = DbEmpty
    /\ ChatStart
    /\ CallStart
    /\ MapUnused
    /\ SpeechStart
    /\ OtherStart

NextInsights ==
    \/ InsightsArrives
    \/ InsightsRead
    \/ InsightsOllama
    \/ InsightsGroq
    \/ InsightsRespond

SpecInsights == InitInsights /\ [][NextInsights]_vars

InitPost ==
    /\ env \in EnvAll
    /\ db = DbEmpty
    /\ ChatStart
    /\ CallStart
    /\ MapUnused
    /\ SpeechStart
    /\ OtherStart

NextPost ==
    \/ PostArrives
    \/ PostAdmit
    \/ PostGroq
    \/ PostOllama
    \/ PostRespond

SpecPost == InitPost /\ [][NextPost]_vars

\* the chat pipeline over a tenant with more rows than the queries take
CrowdMessages == {mQuote, mTasks, mDeals, mInvoice, mRevenue, mDealTask, mTodoInvoice, mOverdueSales}

ChatCrowded == ChatArrives(MaxRequests, CrowdMessages, {"ok"}, {"none"})

InitCrowded ==
    /\ env = EnvAllKeys
    /\ db \in {DbCrowded, DbLone}
    /\ ChatStart
    /\ CallStart
    /\ MapUnused
    /\ SpeechStart
    /\ OtherStart

NextCrowded ==
    \/ ChatCrowded
    \/ ChatAuth
    \/ ChatParse
    \/ ChatContext
    \/ ChatAnalyze
    \/ ChatGroq
    \/ ChatOllama
    \/ ChatHuggingFace
    \/ ChatOpenAI
    \/ ChatRuleBased
    \/ ChatCache
    \/ ChatLog

SpecCrowded == InitCrowded /\ [][NextCrowded]_vars
(***************************************************************************)
(* Properties of the chat pipeline.                                        *)
(***************************************************************************)

\* C1: in every chat request the stages are attempted in the order Groq,
\* Ollama, Hugging Face, OpenAI, rule-based: the i-th attempt of a request is
\* the i-th stage of that order, every attempt before it raised or was skipped,
\* and a stage is skipped only when its credential is missing.
C1_FixedOrder ==
    LET order == <<"groq", "ollama", "huggingface", "openai", "rule-based">>
        configured(stage) == CASE stage = "groq" -> env.GROQ_API_KEY
                           [] stage = "huggingface" -> env.HUGGINGFACE_API_KEY
                           [] stage = "openai" -> env.OPENAI_API_KEY
                           [] OTHER -> TRUE
    IN  /\ Len(chat.attempts) <= Len(order)
        /\ \A i \in DOMAIN chat.attempts :
              /\ chat.attempts[i].stage = order[i]
              /\ chat.attempts[i].result = "skipped" => ~configured(order[i])
              /\ \A j \in 1..(i - 1) : chat.attempts[j].result \in {"raised", "skipped"}
        /\ chat.pc \in {"ollama", "huggingface", "openai", "rule-based"}
              => /\ chat.attempts # << >>
                 /\ chat.pc = order[Len(chat.attempts) + 1]

\* a request in which a provider raised, another was skipped, and the chain
\* reached the rule-based responder
C1_Witness ==
    /\ Len(chat.attempts) = 5
    /\ \E i \in 1..4 : chat.attempts[i].result = "raised"
    /\ \E i \in 1..4 : chat.attempts[i].result = "skipped"

\* C2: when all four networked providers fail, the rule-based responder
\* returns a non-empty text for every message and every context (the empty
\* context included), and the request ends with status 200 and service
\* 'rule-based'.
C2_ChainTotal ==
    /\ \A i \in DOMAIN chat.attempts :
          chat.attempts[i].stage = "rule-based"
             => chat.attempts[i].result = "ok" /\ chat.attempts[i].message # << >>
    /\ (chat.pc = "done" /\ Len(chat.attempts) = 5)
          => /\ chat.res.status = 200
             /\ chat.res.service = "rule-based"
             /\ chat.res.message # << >>

\* all providers failed on an empty context block and the request was answered
C2_Witness ==
    /\ chat.pc = "done"
    /\ Len(chat.attempts) = 5
    /\ chat.businessContext = << >>
    /\ chat.res.service = "rule-based"

C6_RepeatServedFromCache ==
    (chat.keyCachedAtStart /\ chat.auth = "ok" /\ chat.jsonOk)
       => /\ chat.attempts = << >>
          /\ chat.pc = "done" => (chat.res.status = 200 /\ chat.res.cached)

(***************************************************************************)
(* Properties of the endpoints' authorization.                             *)
(***************************************************************************)

\* C7: a request without a resolved identity or without the module license
\* is answered 401 or 403 by every endpoint, never 500, and no persistence
\* read or write and no provider call is made for it.
C7_DeniedBeforeLogic ==
    /\ (chat.pc = "done" /\ chat.auth \in Denied)
          => /\ chat.res.status \in {401, 403}
             /\ chat.queries = << >>
             /\ chat.attempts = << >>
    /\ (tts.pc = "done" /\ tts.auth \in Denied)
          => /\ tts.res.status \in {401, 403}
             /\ tts.gatewayCalls = 0
    /\ \A d \in Deliveries :
          (hook[d].pc # "idle" /\ hook[d].auth \in Denied)
             => /\ hook[d].dbOps = 0
                /\ hook[d].pc = "done" => hook[d].res.status \in {401, 403}

(***************************************************************************)
(* Properties of the context block.                                        *)
(***************************************************************************)

\* C8: every persistence query getBusinessContext issues is restricted to the
\* requesting tenant, no row of another tenant is in the context block, and a
\* tenant without contacts gets no matched contact.
C8_TenantIsolation ==
    chat.pc = "analyze"
       => /\ \A i \in DOMAIN chat.queries : chat.queries[i].tenantFilter = chat.tenantId
          /\ \A i \in DOMAIN chat.businessContext :
                chat.businessContext[i].d.tenantId \in {"none", chat.tenantId}
          /\ {c \in db.contacts : c.tenantId = chat.tenantId} = {} => chat.contact = NoContact

(***************************************************************************)
(* Properties of the telephony webhook.                                    *)
(***************************************************************************)

\* C9: whatever the interleaving of the deliveries, there is at most one call
\* record per vendor call id, every finished delivery has succeeded and its
\* call id has exactly one record.
C9_IdempotentUpsert ==
    /\ \A s \in Sids : Cardinality({c \in calls : c.twilioCallSid = s}) <= 1
    /\ \A d \in Deliveries :
          hook[d].pc = "done"
             => /\ hook[d].res.status = 200
                /\ Cardinality({c \in calls : c.twilioCallSid = hook[d].sid}) = 1

\* C10: mapTwilioStatus maps the seven vendor names, in whatever letter case
\* they arrive, as listed, and every other string to the string RINGING.
C10_StatusMappingTotal ==
    mapOut # "unset"
       => mapOut = (CASE toLowerCase(mapIn) = sRinging -> "RINGING"
                      [] toLowerCase(mapIn) = sInProgress -> "ANSWERED"
                      [] toLowerCase(mapIn) = sCompleted -> "COMPLETED"
                      [] toLowerCase(mapIn) = sBusy -> "BUSY"
                      [] toLowerCase(mapIn) = sNoAnswer -> "NO_ANSWER"
                      [] toLowerCase(mapIn) = sFailed -> "FAILED"
                      [] toLowerCase(mapIn) = sCanceled -> "FAILED"
                      [] OTHER -> "RINGING")


(***************************************************************************)
(* Claims about the chat endpoint's error handling and its provider calls. *)
(***************************************************************************)
\* C11: if a persistence query of context assembly fails, the request is not
\* aborted and the business context the rest of the pipeline uses (sufficiency
\* check, prompt, rule-based responder) is the 'context unavailable' placeholder.
C11_PlaceholderOnQueryFailure ==
    chat.contextFailed =>
        /\ chat.pc = "done" => chat.res.status = 200
        /\ chat.businessContext = ContextUnavailable

\* C12: once a stage of the chain (networked or rule-based) has produced an
\* answer, the request ends only through the log step; that step offers the queue
\* one job holding user id, tenant id, the original message, the response text and
\* the module hint ('general' when the body has none), and whether or not the
\* queue takes it the response is the 200 with the answer and its service.
C12_LogEnqueued ==
    [][(chat'.pc = "done" /\ chat.pc # "done" /\ chat'.hasResponse) =>
          /\ chat.pc = "log"
          /\ logQueue' \in
                {logQueue,
                 logQueue \cup {[userId |-> UserOf(chat.tenantId), tenantId |-> chat.tenantId,
                                 query |-> chat.message, response |-> chat.response,
                                 module |-> IF chat.moduleHint \in moduleEnum THEN chat.moduleHint
                                            ELSE "general"]}}
          /\ chat'.logAdds = 1
          /\ chat'.res = [status |-> 200, service |-> chat.usedService, cached |-> FALSE,
                          message |-> chat.response, needsClarification |-> FALSE]]_vars

\* a hinted request whose enqueue failed, answered 200 by a stage of the chain
C12_Witness ==
    /\ chat.pc = "done"
    /\ chat.hasResponse
    /\ chat.moduleHint = "crm"
    /\ logQueue = {}
    /\ chat.res.status = 200
    /\ chat.res.message = chat.response

C14_OnlyValidationAndAuthErrors ==
    chat.pc = "done" => chat.res.status \in {200, 400, 401, 403}

\* C15: a chat request whose message is the empty string is answered with the
\* validation error (400) and has no side effects: no context query, no provider
\* call, no cache write and no log enqueue happen for it (the request is from a
\* licensed user and its body is JSON; authorization and parsing come first).
C15_EmptyMessageRejected ==
    (chat.message = << >> /\ chat.pc \notin {"idle", "auth"} /\ chat.auth = "ok" /\ chat.jsonOk) =>
        /\ chat.pc \in {"parse", "done"}
        /\ chat.pc = "done" => chat.res.status = 400
        /\ chat.queries = << >>
        /\ chat.attempts = << >>
        /\ chat.cacheSets = 0
        /\ chat.logAdds = 0

\* the empty message answered 400
C15_Witness ==
    /\ chat.pc = "done"
    /\ chat.message = << >>
    /\ chat.auth = "ok"
    /\ chat.jsonOk
    /\ chat.res.status = 400

\* C16: within one chat request the provider calls are strictly sequential and
\* never retried: at most one call is in flight at any time, it is the call of the
\* stage the request is at, and each provider is called at most once.
C16_OneCallAtATime ==
    /\ Cardinality(chat.inFlight) <= 1
    /\ \A stage \in chat.inFlight :
          /\ chat.pc = stage
          /\ ~chat.hasResponse
    /\ \A stage \in {"groq", "ollama", "huggingface", "openai"} :
          Cardinality({i \in DOMAIN chat.attempts :
                          chat.attempts[i].stage = stage /\ chat.attempts[i].result \in {"ok", "raised"}})
             + (IF stage \in chat.inFlight THEN 1 ELSE 0) <= 1

\* the OpenAI call in flight after the three earlier providers were called and failed
C16_Witness ==
    /\ chat.inFlight = {"openai"}
    /\ Len(chat.attempts) = 3
    /\ \A i \in 1..3 : chat.attempts[i].result = "raised"

\* C18: in the rendered context block each of the overdue-invoice, pending-task,
\* active-deal and pending-invoice sections shows its 'None - ...' text if and
\* only if its query returned no row, and otherwise exactly one numbered line per
\* returned row (numbered 1, 2, ... under the section's header).
C18_SentinelIffNoRows ==
    (chat.pc = "analyze" /\ ~chat.contextFailed) =>
        LET ctx == chat.businessContext
            t == chat.tenantId
            capped(n) == IF n > ListTake THEN ListTake ELSE n
            bodyOf(sec) ==
                LET h == CHOOSE i \in DOMAIN ctx : ctx[i].k = "header" /\ ctx[i].s = sec
                    e == CHOOSE j \in (h + 1)..Len(ctx) :
                            ctx[j] = Ln("") /\ \A m \in (h + 1)..(j - 1) : ctx[m] # Ln("")
                IN  SubSeq(ctx, h + 1, e - 1)
            sectionOk(sec, count, noneText) ==
                /\ Cardinality({i \in DOMAIN ctx : ctx[i].k = "header" /\ ctx[i].s = sec}) = 1
                /\ (\E i \in DOMAIN ctx : ctx[i] = Ln(noneText)) <=> count = 0
                /\ IF count = 0
                   THEN bodyOf(sec) = <<Ln(noneText)>>
                   ELSE /\ Len(bodyOf(sec)) = count
                        /\ \A i \in 1..count :
                              /\ bodyOf(sec)[i].k = "item"
                              /\ bodyOf(sec)[i].s = sec
                              /\ bodyOf(sec)[i].n = i
        IN  /\ sectionOk("OVERDUE INVOICES",
                         capped(Cardinality({x \in db.invoices : x.tenantId = t /\ x.status = "overdue"})),
                         "None - You have no overdue invoices.")
            /\ sectionOk("PENDING TASKS",
                         capped(Cardinality({x \in db.tasks :
                                                x.tenantId = t /\ x.status \in {"pending", "in_progress"}})),
                         "None - You have no pending tasks.")
            /\ sectionOk("ACTIVE DEALS",
                         capped(Cardinality({x \in db.deals : x.tenantId = t})),
                         "None - You have no active deals.")
            /\ sectionOk("PENDING INVOICES",
                         capped(Cardinality({x \in db.invoices :
                                                x.tenantId = t /\ x.status \in {"sent", "draft"}})),
                         "None - You have no pending invoices.")

\* one overdue invoice and no pending task: one line under OVERDUE INVOICES and
\* the pending-tasks sentinel
C18_Witness ==
    /\ chat.pc = "analyze"
    /\ ~chat.contextFailed
    /\ db = DbAcme
    /\ chat.tenantId = "t1"
    /\ \E i \in DOMAIN chat.businessContext :
          /\ chat.businessContext[i] = Header("OVERDUE INVOICES", 1)
          /\ chat.businessContext[i + 1].k = "item"
          /\ chat.businessContext[i + 2] = Ln("")
    /\ \E i \in DOMAIN chat.businessContext :
          chat.businessContext[i] = Ln("None - You have no pending tasks.")

(***************************************************************************)
(* Claims about the gateway endpoints and the telephony webhook.           *)
(***************************************************************************)
\* C17: there is no shared mutable in-process state: the credential used for a
\* request's AI-gateway call is the one that request carries, never a token set
\* by a different request handled earlier or concurrently.
C17_NoSharedToken ==
    tts.gatewayCalls > 0 => tts.usedToken = tts.token

\* C19: a delivery the webhook has processed is answered with the fixed
\* voice-response markup if its status is one the mapping turns into RINGING or
\* ANSWERED by name (ringing, in-progress, in any letter case, as the mapping
\* lower-cases the name), and with {success: true} otherwise.
C19_MarkupIffRingingOrInProgress ==
    \A d \in Deliveries :
        (hook[d].pc = "done" /\ hook[d].res.status = 200) =>
            IF toLowerCase(hook[d].callStatus) \in {sRinging, sInProgress}
            THEN hook[d].res = TwiML
            ELSE hook[d].res = HookSuccess

\* C20: in the speech endpoint, whenever the provider call made for a request
\* fails, the error response surfaces that failure: it carries the vendor's
\* failure detail and a remediation hint, and it is not the 'service not
\* configured' error.
C20_ProviderErrorSurfaced ==
    (tts.pc = "done" /\ tts.gatewayCalls > 0 /\ tts.res.status # 200) =>
        /\ "details" \in tts.res.fields
        /\ "hint" \in tts.res.fields
        /\ tts.res.body # "TTS service not configured"

(***************************************************************************)
(* Claims about the call endpoints and the call store.                     *)
(***************************************************************************)
\* C21: GET /api/calls/[id] returns a call only if it belongs to the requester's
\* tenant, an id that exists under another tenant is answered 404 exactly like an
\* id that does not exist, and GET /api/calls lists (and counts) only calls of the
\* requester's tenant, for every status, page and limit parameter.
C21_CallsOfOwnTenantOnly ==
    /\ \A i \in DOMAIN callsApi.calls : callsApi.calls[i].tenantId = callsApi.user
    /\ (callsApi.op = "get" /\ callsApi.user # "none"
          /\ ~\E c \in calls : c.id = callsApi.id /\ c.tenantId = callsApi.user)
          => /\ callsApi.httpStatus = 404
             /\ callsApi.error = "Call not found"
             /\ callsApi.calls = << >>
    /\ (callsApi.op = "get" /\ callsApi.httpStatus = 200)
          => /\ Len(callsApi.calls) = 1
             /\ callsApi.calls[1] \in calls
             /\ callsApi.calls[1].id = callsApi.id
    /\ callsApi.op = "list"
          => /\ callsApi.total <= Cardinality({c \in calls : c.tenantId = callsApi.user})
             /\ \A i \in DOMAIN callsApi.calls : callsApi.calls[i] \in calls

\* a call of another tenant asked for by id and answered 404
C21_Witness ==
    /\ callsApi.op = "get"
    /\ callsApi.user = "t1"
    /\ callsApi.httpStatus = 404
    /\ \E c \in calls : c.id = callsApi.id /\ c.tenantId = "t2"

\* C22: in every state of the call store produced by webhook deliveries, a call
\* whose status is ANSWERED has answeredAt set and a call whose status is
\* COMPLETED has endedAt set, also when the first delivery for the call id already
\* carries in-progress or completed.
C22_TimestampsFollowStatus ==
    \A c \in calls :
        /\ c.status = "ANSWERED" => c.answeredAt # "null"
        /\ c.status = "COMPLETED" => c.endedAt # "null"

\* C23: once a call's stored status is terminal (COMPLETED, BUSY, NO_ANSWER or
\* FAILED), no later delivery for the same call id, delayed or with a status the
\* mapping does not know, changes it back to RINGING or ANSWERED.
C23_TerminalStatusStays ==
    [][\A c \in calls :
          c.status \in {"COMPLETED", "BUSY", "NO_ANSWER", "FAILED"}
             => \A later \in calls' :
                   later.twilioCallSid = c.twilioCallSid => later.status \notin {"RINGING", "ANSWERED"}]_vars


(***************************************************************************)
(* Claims about the OAuth callback.                                        *)
(***************************************************************************)
\* C24: the callback creates or updates the (tenant, 'google-ai-studio')
\* integration only after a token exchange that succeeded and returned an access
\* token; every earlier failure (error parameter, missing code or state,
\* undecodable state, missing client credentials, failed exchange, no access
\* token) ends in a redirect with an error code and leaves the stored integrations
\* unchanged; there is never more than one integration per (tenant, provider).
C24_StoreOnlyAfterExchange ==
    /\ [](\A x \in integrations, y \in integrations :
             (x.tenantId = y.tenantId /\ x.provider = y.provider) => x = y)
    /\ []((oauth.pc = "done"
             /\ (\/ oauth.error # "none"
                 \/ oauth.code = "none"
                 \/ oauth.state \in {"none", "garbage"}
                 \/ ~oauth.configured
                 \/ ~oauth.tokenOk
                 \/ oauth.tokens.access_token = "none"))
            => oauth.redirect \notin {"none", "google_connected"})
    /\ [][/\ integrations' # integrations
                => /\ oauth.pc = "store"
                   /\ oauth.error = "none" /\ oauth.code # "none" /\ oauth.configured
                   /\ oauth.state \in {"t1", "t2"}
                   /\ oauth.tokenOk
                   /\ oauth.tokens.access_token # "none"
                   /\ oauth'.redirect = "google_connected"
                   /\ {x \in integrations' : x.tenantId # oauth.state}
                         = {x \in integrations : x.tenantId # oauth.state}
                   /\ \E x \in integrations' :
                         /\ x.tenantId = oauth.state
                         /\ x.provider = "google-ai-studio"
                         /\ x.accessToken = oauth.tokens.access_token
          /\ (oauth'.pc = "done" /\ oauth.pc # "done" /\ oauth'.redirect # "google_connected")
                => integrations' = integrations]_vars

\* a second callback that failed for want of an access token, the integration of
\* the first still stored
C24_Witness ==
    /\ oauth.pc = "done"
    /\ oauth.seq = 2
    /\ oauth.redirect = "no_access_token"
    /\ integrations # {}

\* C25: when a tenant with a stored integration that has a refresh token completes
\* the callback again and the token response has no refresh_token, the stored
\* refresh token stays while access token, expiry, token type and scope are
\* replaced; on first-time creation a missing refresh_token is stored as null.
C25_RefreshTokenKept ==
    [][(oauth.pc = "store" /\ oauth'.redirect = "google_connected")
          => LET old == {x \in integrations : x.tenantId = oauth.tenantId}
                 new == {x \in integrations' : x.tenantId = oauth.tenantId}
                 t == oauth.tokens
             IN  /\ Cardinality(new) = 1
                 /\ \A n \in new :
                       /\ n.accessToken = t.access_token
                       /\ n.expiresAt = t.expires_in
                       /\ n.tokenType = (IF t.token_type = "none" THEN "Bearer" ELSE t.token_type)
                       /\ n.scope = t.scope
                       /\ t.refresh_token # "none" => n.refreshToken = t.refresh_token
                       /\ (t.refresh_token = "none" /\ old = {}) => n.refreshToken = "none"
                       /\ t.refresh_token = "none" => \A o \in old : n.refreshToken = o.refreshToken]_vars

\* tenant t1 reconnected with a response without refresh_token: the first refresh
\* token is still stored beside the second access token
C25_Witness ==
    /\ oauth.pc = "done"
    /\ oauth.seq = 2
    /\ oauth.redirect = "google_connected"
    /\ oauth.tokens.refresh_token = "none"
    /\ \E x \in integrations :
          /\ x.tenantId = oauth.tenantId
          /\ x.accessToken = "a2"
          /\ x.refreshToken = "r1"
          /\ x.expiresAt = 0

(***************************************************************************)
(* C26: in POST /api/ai/generate-image an explicitly selected provider     *)
(* (nanobanana, huggingface, google-ai-studio) is the only provider the    *)
(* request ever calls, and a failed call or a missing credential ends in   *)
(* an error response; provider auto calls Google AI Studio first, only     *)
(* with a stored tenant key, then Hugging Face, only with its key          *)
(* configured and only after Google failed or was skipped, and answers 503 *)
(* when neither produced an image.                                         *)
(***************************************************************************)
ExplicitProviders == {"nanobanana", "huggingface", "google-ai-studio"}

imageCalls == [p \in 1..Len(image.called) |-> image.called[p].provider]

imageMade == \E p \in 1..Len(image.called) : image.called[p].ok

imageAdmitted == requireAIStudioAccess(image.auth) /\ image.promptOk

insightsStages == [p \in 1..Len(insights.tried) |-> insights.tried[p].stage]

C28_ShortTopicAsksClarification ==
    post.pc = "done" /\ requireModuleAccess(post.auth) /\ post.given /\ Len(trim(post.topic)) < 10 =>
        post.res.status = 400 /\ post.res.needsClarification /\ post.tried = << >>

(***************************************************************************)
(* C28 amended: a non-empty topic shorter than 10 characters after         *)
(* trimming is answered with 400 and needsClarification true, an empty or  *)
(* missing topic with the 400 of the schema, which carries no              *)
(* needsClarification, neither with a provider call; otherwise the post    *)
(* comes from Groq if its key is configured and its call succeeds, else    *)
(* from Ollama, else from the rule-based generator, the service field      *)
(* names the stage whose text is returned, and a provider failure never    *)
(* gives an error response.                                                *)
(***************************************************************************)
postStages == [p \in 1..Len(post.tried) |-> post.tried[p].stage]

postLast == post.tried[Len(post.tried)]

C28_PostFallback ==
    /\ post.pc = "done" /\ requireModuleAccess(post.auth) =>
          /\ post.given /\ Len(post.topic) >= 1 /\ Len(trim(post.topic)) < 10 =>
                /\ post.res.status = 400 /\ post.res.needsClarification
                /\ post.res.error = "Topic too vague" /\ post.tried = << >>
          /\ ~post.given \/ Len(post.topic) = 0 =>
                /\ post.res.status = 400 /\ ~post.res.needsClarification
                /\ post.res.error = "Validation error" /\ post.tried = << >>
          /\ post.given /\ Len(trim(post.topic)) >= 10 /\ post.res.status # 200 =>
                post.res.status = 500 /\ post.tried = << >>
    /\ postStages \in {<< >>, <<"groq">>, <<"ollama">>, <<"groq", "ollama">>}
    /\ postStages # << >> /\ postStages[1] = "groq" => env.GROQ_API_KEY
    /\ postStages # << >> /\ postStages[1] = "ollama" => ~env.GROQ_API_KEY
    /\ Len(post.tried) = 2 => ~post.tried[1].ok
    /\ post.pc = "done" /\ post.tried # << >> => post.res.status = 200
    /\ post.pc = "done" /\ post.res.status = 200 =>
          /\ post.tried # << >>
          /\ postLast.ok => post.res.service = postLast.stage /\ post.res.post = postLast.message
          /\ ~postLast.ok =>
                /\ postLast.stage = "ollama"
                /\ post.res.service = "rule-based"
                /\ post.res.post = generateRuleBasedPost(post.topic, post.platform, post.tone, post.length)

\* ten characters of which eight remain after trimming: 400 with needsClarification
C28_Witness ==
    /\ post.pc = "done" /\ post.topic = <<" ","s","a","l","e"," ","n","o","w"," ">> /\ requireModuleAccess(post.auth)
    /\ post.res.status = 400 /\ post.res.needsClarification

(***************************************************************************)
(* C29 as stated: the count printed in each section header of the context  *)
(* block equals the number of lines rendered under that header.            *)
(***************************************************************************)
CountedSections == {"PAST INTERACTIONS", "OVERDUE INVOICES", "PENDING TASKS", "ACTIVE DEALS", "PENDING INVOICES"}

ListedSections == CountedSections \cup {"=== AVAILABLE PRODUCTS/SERVICES ==="}

\* a line that belongs to the body of a section: an entry or a sentence, not a blank line or a banner
isBodyLine(l) ==
    \/ l.k = "item"
    \/ l.k = "text" /\ l.s \notin {"", "=== AVAILABLE PRODUCTS/SERVICES ===", "=== END OF BUSINESS DATA ==="}

linesUnder(ctx, h) == Cardinality({j \in (h + 1)..Len(ctx) : \A q \in (h + 1)..j : isBodyLine(ctx[q])})

entriesOf(ctx, sec) == Cardinality({j \in DOMAIN ctx : ctx[j].k = "item" /\ ctx[j].s = sec})

C29_HeaderCountsLines ==
    \A h \in DOMAIN chat.businessContext :
        chat.businessContext[h].k = "header" /\ chat.businessContext[h].s \in CountedSections =>
            chat.businessContext[h].n = linesUnder(chat.businessContext, h)

(***************************************************************************)
(* C29 amended: the context block holds at most one matched contact, at    *)
(* most one related deal, the most recently created deal of that contact,  *)
(* at most 5 past interactions and at most 10 entries each of products,    *)
(* overdue invoices, pending tasks, active deals and pending invoices; the *)
(* count in a section header equals the number of numbered entries under   *)
(* it, and an empty invoice, task or deal section prints the count 0 over  *)
(* one line, its 'None - ...' sentence.                                    *)
(***************************************************************************)
C29_ContextBounded ==
    LET ctx == chat.businessContext IN
    /\ entriesOf(ctx, "CLIENT:") <= 1
    /\ entriesOf(ctx, "- Deal Name:") <= 1
    /\ entriesOf(ctx, "- Deal Name:") <= entriesOf(ctx, "CLIENT:")
    /\ \A i \in DOMAIN ctx :
          ctx[i].k = "item" /\ ctx[i].s = "- Deal Name:" =>
             \E c \in db.contacts, x \in db.deals :
                /\ c.tenantId = chat.tenantId /\ x.tenantId = chat.tenantId /\ x.contactId = c.id
                /\ \E j \in DOMAIN ctx : ctx[j].k = "item" /\ ctx[j].s = "CLIENT:" /\ ctx[j].d.name = c.name
                /\ ctx[i].d.name = x.name /\ ctx[i].d.amount = x.value
                /\ \A y \in db.deals :
                      y.tenantId = chat.tenantId /\ y.contactId = c.id => y.createdAt <= x.createdAt
    /\ entriesOf(ctx, "PAST INTERACTIONS") <= InteractionTake
    /\ \A sec \in ListedSections \ {"PAST INTERACTIONS"} : entriesOf(ctx, sec) <= ListTake
    /\ \A h \in DOMAIN ctx :
          ctx[h].k = "header" /\ ctx[h].s \in CountedSections =>
             /\ ctx[h].n = entriesOf(ctx, ctx[h].s)
             /\ \A j \in 1..ctx[h].n : ctx[h + j].k = "item" /\ ctx[h + j].s = ctx[h].s /\ ctx[h + j].n = j
             /\ ctx[h].n = 0 => linesUnder(ctx, h) = 1 /\ ctx[h + 1].k = "text"
             /\ ctx[h].n > 0 => linesUnder(ctx, h) = ctx[h].n

\* twelve rows of every kind: one contact, its newest deal, 5 interactions and 10 entries per list
C29_Witness ==
    LET ctx == chat.businessContext IN
    /\ chat.tenantId = "t1"
    /\ entriesOf(ctx, "CLIENT:") = 1
    /\ \E i \in DOMAIN ctx : ctx[i].k = "item" /\ ctx[i].s = "- Deal Name:" /\ ctx[i].d.amount = 100 + CrowdSize
    /\ entriesOf(ctx, "PAST INTERACTIONS") = InteractionTake
    /\ \A sec \in ListedSections \ {"PAST INTERACTIONS"} : entriesOf(ctx, sec) = ListTake
    /\ Cardinality({x \in db.tasks : x.tenantId = "t1"}) > ListTake

(***************************************************************************)
(* C30: getHelpfulResponse is a function of the query and the context      *)
(* block; its branch is the first of deal, task/todo/attention,            *)
(* invoice/overdue, revenue/income/sales whose keyword the lower-cased     *)
(* query contains, else the default notice; the deal, task and invoice     *)
(* branches list at most 5 numbered lines, each one a line of the matching *)
(* section of the context block, in the order of the block, and give the   *)
(* branch's 'no items' sentence when the section is absent or holds the    *)
(* 'None' sentence.                                                        *)
(***************************************************************************)
ruleBranch(query) ==
    LET q == toLowerCase(query) IN
    CASE includes(q, <<"d","e","a","l">>) -> "deal"
      [] ~includes(q, <<"d","e","a","l">>)
         /\ (includes(q, <<"t","a","s","k">>) \/ includes(q, <<"t","o","d","o">>) \/ includes(q, <<"a","t","t","e","n","t","i","o","n">>)) -> "task"
      [] ~includes(q, <<"d","e","a","l">>)
         /\ ~(includes(q, <<"t","a","s","k">>) \/ includes(q, <<"t","o","d","o">>) \/ includes(q, <<"a","t","t","e","n","t","i","o","n">>))
         /\ (includes(q, <<"i","n","v","o","i","c","e">>) \/ includes(q, <<"o","v","e","r","d","u","e">>)) -> "invoice"
      [] ~includes(q, <<"d","e","a","l">>)
         /\ ~(includes(q, <<"t","a","s","k">>) \/ includes(q, <<"t","o","d","o">>) \/ includes(q, <<"a","t","t","e","n","t","i","o","n">>))
         /\ ~(includes(q, <<"i","n","v","o","i","c","e">>) \/ includes(q, <<"o","v","e","r","d","u","e">>))
         /\ (includes(q, <<"r","e","v","e","n","u","e">>) \/ includes(q, <<"i","n","c","o","m","e">>) \/ includes(q, <<"s","a","l","e","s">>)) -> "revenue"
      [] OTHER -> "default"

ruleSection ==
    [deal |-> "ACTIVE DEALS", task |-> "PENDING TASKS", invoice |-> "OVERDUE INVOICES"]

ruleNoItems ==
    [deal |-> "I couldn't find active deals in your data. You can view all deals on the Deals page.",
     task |-> "You currently have no pending tasks. Great job staying on top of things!",
     invoice |-> "You have no overdue invoices. Excellent!"]

ruleSentinel ==
    [deal |-> "None - You have no active deals.", task |-> "None - You have no pending tasks.",
     invoice |-> "None - You have no overdue invoices."]

ruleIntro ==
    [deal |-> "Here are your top deals:", task |-> "Here are the tasks that need your attention:",
     invoice |-> "Here are your overdue invoices:"]

\* the positions of the numbered lines of a section in the context block, in order
sectionEntries(ctx, sec) == {j \in DOMAIN ctx : ctx[j].k = "item" /\ ctx[j].s = sec}

ruleAnswered == chat.attempts # << >> /\ chat.attempts[Len(chat.attempts)].stage = "rule-based"

C30_RuleBasedResponder ==
    ruleAnswered =>
        LET ctx == chat.businessContext
            out == chat.response
            b == ruleBranch(chat.message)
        IN  /\ out = getHelpfulResponse(chat.message, ctx)
            /\ b \in {"deal", "task", "invoice"} =>
                  LET sec == ruleSection[b]
                      listed == {i \in DOMAIN out : out[i].k = "item"}
                  IN  /\ \/ out = <<Ln(ruleNoItems[b])>>
                         \/ /\ out[1] = Ln(ruleIntro[b])
                            /\ Cardinality(listed) >= 1
                      /\ Cardinality(listed) <= RuleTake
                      /\ \A i \in listed :
                            \E j \in sectionEntries(ctx, sec) :
                               /\ out[i] = ctx[j]
                               /\ Cardinality({x \in listed : x <= i})
                                    = Cardinality({y \in sectionEntries(ctx, sec) : y <= j})
                      /\ (\/ ~\E h \in DOMAIN ctx : ctx[h].k = "header" /\ ctx[h].s = sec
                          \/ \E h \in DOMAIN ctx : ctx[h] = Ln(ruleSentinel[b]))
                            => out = <<Ln(ruleNoItems[b])>>
            /\ b = "revenue" =>
                  /\ Len(out) = 1
                  /\ out[1].k = "header" <=> \E h \in DOMAIN ctx : ctx[h].k = "header" /\ ctx[h].s = "- Revenue (Last 30 Days):"
                  /\ out[1].k = "header" => out[1].s = "Your revenue for the last 30 days is"
            /\ b = "default" => out[1] = Ln("I'm having trouble connecting to the AI service right now.")

\* a question naming deals and tasks, ten active deals in the block: the first five deals are listed
C30_Witness ==
    /\ ruleAnswered /\ chat.message = mDealTask
    /\ Cardinality(sectionEntries(chat.businessContext, "ACTIVE DEALS")) = ListTake
    /\ Cardinality({i \in DOMAIN chat.response : chat.response[i].k = "item" /\ chat.response[i].s = "ACTIVE DEALS"}) = RuleTake
====
